---- MODULE Spec2Model ----
(***************************************************************************)
(* Session / step / timer state machine of the cooking assistant.          *)
(*                                                                         *)
(* Two programs of the repository keep the same session-state dictionary:  *)
(*   - src/src/main.py (the FastAPI application): web_timer_tool,          *)
(*     WebRecipeManagerTool, get_timer_info, get_cooking_status;           *)
(*   - src/src/backend (CookingAgentHandler + tools/timer_tool.py):        *)
(*     web_timer_tool, check_timer_completion, handle_interaction.         *)
(*                                                                         *)
(* A session state is a Python dict; it is modelled as a TLA+ function     *)
(* whose DOMAIN is the set of keys present, so that dict.get(key) on an    *)
(* absent key (None) is distinguished from a stored False or 0.  The dict   *)
(* a request reads back from the session service is the one the tools      *)
(* wrote to.                                                               *)
(*                                                                         *)
(* Time is counted in ticks, TicksPerSecond ticks to the second, because   *)
(* the code measures elapsed time as a fraction of seconds and truncates   *)
(* the remaining time with int().  Durations are whole seconds.  The clock *)
(* is taken to be monotone.                                                *)
(***************************************************************************)
EXTENDS Integers, Sequences, FiniteSets, TLC

\* ------------------------------------------------------------------ bounds
MaxTime == 4
MaxDur == 2
TicksPerSecond == 2
MaxIndex == 2
MaxAdvance == 4
MaxSessions == 2
MaxCalls == 2

\* Durations a caller may ask for: negative, zero and positive.
Durations == (0 - 1) .. MaxDur

VARIABLES
    prog,       \* which program serves the session: "main" (main.py) or "backend"
    now,        \* the wall clock, in ticks
    state,      \* the session's state dict (session.state / tool_context.state)
    runner,     \* session_id in active_runners
    hi,         \* the request running the agent: [pc, kind, msg]
    last,       \* history: the last operation performed, its arguments and result
    started,    \* history: the last accepted timer start, or NoTimer
    notified,   \* history: completion messages returned since the last timer start
    advanced,   \* history: advance_step calls issued (session table: tool calls issued)
    pc,         \* concurrent callers: position of each thread
    loc,        \* concurrent callers: local variables of each thread
    tool,       \* agents/sous_chef_agent.py: the RecipeManagerTool object, or NoTool
    sessions,   \* the session service: session id -> state dict of every stored session
    active_runners, \* the ids registered in active_runners
    input,      \* duration parsing: the text given to the parser, as characters
    phrase,     \* history: the items the text was written from
    active_timers,  \* TimerManager.active_timers: timer id -> Timer
    run_timer,  \* the threads running TimerManager._run_timer: [timer, pc] each
    completions, \* history: timer id -> runs of TimerManager._timer_completed
    memory      \* history: session id -> calls of add_session_to_memory with that session

vars == <<prog, now, state, runner, hi, last, started, notified, advanced, pc, loc,
          tool, sessions, active_runners,
          input, phrase, active_timers, run_timer, completions, memory>>

\* ------------------------------------------------------------- dict helpers
\* dict.get(k, d)
Get(st, k, d) == IF k \in DOMAIN st THEN st[k] ELSE d

\* dict[k] = v
Put(st, k, v) == [x \in (DOMAIN st) \cup {k} |-> IF x = k THEN v ELSE st[x]]

Max(a, b) == IF a >= b THEN a ELSE b

\* ------------------------------------------------------------------ recipes
\* int(k) for the step keys used by the sample recipes
IntOfKey(k) ==
    CASE k = "1" -> 1
      [] k = "2" -> 2
      [] k = "3" -> 3
      [] k = "10" -> 10

NoSteps == [k \in {} |-> ""]

\* Recipe step maps handed to a session: none, two steps, and
\* three steps whose keys sort differently as strings and as integers.
Recipes ==
    { NoSteps,
      [k \in {"1", "2"} |-> IF k = "1" THEN "A" ELSE "B"],
      [k \in {"2", "10", "1"} |-> IF k = "1" THEN "A" ELSE IF k = "2" THEN "B" ELSE "C"] }

\* sorted([int(k) for k in recipe_steps.keys()])
RECURSIVE SortInts(_)
SortInts(S) ==
    IF S = {} THEN <<>>
    ELSE LET m == CHOOSE x \in S : \A y \in S : x <= y
         IN <<m>> \o SortInts(S \ {m})

StepKeys(steps) == SortInts({IntOfKey(k) : k \in DOMAIN steps})

\* str(n): the key whose integer value is n
KeyOfInt(steps, n) == CHOOSE k \in DOMAIN steps : IntOfKey(k) = n

COMPLETION_PHRASE == "The recipe is finished."

\* ----------------------------------------------------------------- tools
NoTimer == [none |-> TRUE]
NoMsg == [none |-> TRUE]
NoTool == [none |-> TRUE]
NoSessions == [id \in {} |-> NoTimer]

\* Mutant of web_timer_tool: a start issued while a timer is active is
\* acknowledged but the running timer is kept.
WebTimerTool_KeepsRunning(st, t, clock) ==
    IF t < 0
    THEN [state |-> st, status |-> "error"]
    ELSE IF Get(st, "timer_active", FALSE)
    THEN [state |-> st, status |-> "timer_started"]
    ELSE [state |-> Put(Put(Put(st, "timer_active", TRUE),
                                   "timer_duration", t),
                                   "timer_start_time", clock),
          status |-> "timer_started"]

\* Mutant of web_timer_tool: timer_active is stored before the duration is
\* validated.
WebTimerTool_StoresBeforeCheck(st, t, clock) ==
    IF t < 0
    THEN [state |-> Put(st, "timer_active", TRUE), status |-> "error"]
    ELSE [state |-> Put(Put(Put(st, "timer_active", TRUE),
                                   "timer_duration", t),
                                   "timer_start_time", clock),
          status |-> "timer_started"]

\* main.py web_timer_tool: the validation, then three stores
WebTimerTool(st, t, clock) ==
    IF t < 0
    THEN [state |-> st, status |-> "error"]
    ELSE [state |-> Put(Put(Put(st, "timer_active", TRUE),
                                   "timer_duration", t),
                                   "timer_start_time", clock),
          status |-> "timer_started"]

\* backend/tools/timer_tool.py web_timer_tool: the validation, then five stores
BackendWebTimerTool(st, t, clock) ==
    IF t < 0
    THEN [state |-> st, status |-> "error"]
    ELSE [state |-> Put(Put(Put(Put(Put(st, "timer_active", TRUE),
                                           "timer_duration", t),
                                           "timer_start_time", clock),
                                           "timer_completed", FALSE),
                                           "timer_completion_notified", FALSE),
          status |-> "timer_ready"]

\* Mutant of check_timer_completion: the negation is applied to the whole
\* condition, not (completed and notified).
CheckTimerCompletion_MisplacedNot(st) ==
    IF ~(Get(st, "timer_completed", FALSE) /\ Get(st, "timer_completion_notified", FALSE))
    THEN [state |-> Put(st, "timer_completion_notified", TRUE),
          msg |-> [duration |-> Get(st, "timer_duration", 0)]]
    ELSE [state |-> st, msg |-> NoMsg]

\* backend/tools/timer_tool.py check_timer_completion: the message returned
\* (NoMsg for None) and the state it leaves
CheckTimerCompletion(st) ==
    IF Get(st, "timer_completed", FALSE) /\ ~Get(st, "timer_completion_notified", FALSE)
    THEN [state |-> Put(st, "timer_completion_notified", TRUE),
          msg |-> [duration |-> Get(st, "timer_duration", 0)]]
    ELSE [state |-> st, msg |-> NoMsg]

\* Mutant of the remaining-time computation: the elapsed time is added.
RemainingTicks_SignError(duration, start, clock) ==
    Max(0, duration * TicksPerSecond + (clock - start))

\* remaining = max(0, duration - elapsed), in ticks
RemainingTicks(duration, start, clock) ==
    Max(0, duration * TicksPerSecond - (clock - start))

InactiveInfo == [active |-> FALSE]

\* Mutant of get_timer_info: the expiry clears the stored duration together
\* with timer_active.
GetTimerInfo_ClearsDuration(st, clock) ==
    IF ~Get(st, "timer_active", FALSE)
    THEN [state |-> st, info |-> InactiveInfo]
    ELSE IF "timer_start_time" \notin DOMAIN st \/ Get(st, "timer_duration", 0) = 0
    THEN [state |-> st, info |-> InactiveInfo]
    ELSE LET remaining == RemainingTicks(st["timer_duration"], st["timer_start_time"], clock)
         IN IF remaining <= 0
            THEN [state |-> Put(Put(st, "timer_active", FALSE), "timer_duration", 0),
                  info |-> InactiveInfo]
            ELSE [state |-> st,
                  info |-> [active |-> TRUE,
                            duration_seconds |-> st["timer_duration"],
                            start_time |-> st["timer_start_time"],
                            remaining_seconds |-> remaining \div TicksPerSecond]]

\* main.py get_timer_info: the TimerInfo returned and the state it leaves
GetTimerInfo(st, clock) ==
    IF ~Get(st, "timer_active", FALSE)
    THEN [state |-> st, info |-> InactiveInfo]
    ELSE IF "timer_start_time" \notin DOMAIN st \/ Get(st, "timer_duration", 0) = 0
    THEN [state |-> st, info |-> InactiveInfo]
    ELSE LET remaining == RemainingTicks(st["timer_duration"], st["timer_start_time"], clock)
         IN IF remaining <= 0
            THEN [state |-> Put(st, "timer_active", FALSE), info |-> InactiveInfo]
            ELSE [state |-> st,
                  info |-> [active |-> TRUE,
                            duration_seconds |-> st["timer_duration"],
                            start_time |-> st["timer_start_time"],
                            remaining_seconds |-> remaining \div TicksPerSecond]]

\* Mutant of get_current_step: the lookup recomputes the completed flag from
\* the cursor instead of only ever setting it.
GetCurrentStep_RecomputesFlag(st) ==
    LET recipe_steps == Get(st, "recipe_steps", NoSteps)
        current_index == Get(st, "step_index", 0)
        step_keys == StepKeys(recipe_steps)
    IN IF DOMAIN recipe_steps = {}
       THEN [state |-> st,
             ret |-> [step |-> "No recipe loaded", step_number |-> [int |-> 0],
                      is_complete |-> TRUE]]
       ELSE IF current_index >= Len(step_keys)
       THEN [state |-> Put(st, "recipe_completed", TRUE),
             ret |-> [step |-> COMPLETION_PHRASE, step_number |-> [str |-> "complete"],
                      is_complete |-> TRUE]]
       ELSE LET text == recipe_steps[KeyOfInt(recipe_steps, step_keys[current_index + 1])]
            IN [state |-> Put(Put(Put(st, "recipe_completed", FALSE),
                                          "current_step_text", text),
                                      "current_step_number", current_index + 1),
                ret |-> [step |-> text, step_number |-> [int |-> current_index + 1],
                         is_complete |-> FALSE]]

\* get_current_step (WebRecipeManagerTool and RecipeManagerTool are the same code)
GetCurrentStep(st) ==
    LET recipe_steps == Get(st, "recipe_steps", NoSteps)
        current_index == Get(st, "step_index", 0)
        step_keys == StepKeys(recipe_steps)
    IN IF DOMAIN recipe_steps = {}
       THEN [state |-> st,
             ret |-> [step |-> "No recipe loaded", step_number |-> [int |-> 0],
                      is_complete |-> TRUE]]
       ELSE IF current_index >= Len(step_keys)
       THEN [state |-> Put(st, "recipe_completed", TRUE),
             ret |-> [step |-> COMPLETION_PHRASE, step_number |-> [str |-> "complete"],
                      is_complete |-> TRUE]]
       ELSE LET text == recipe_steps[KeyOfInt(recipe_steps, step_keys[current_index + 1])]
            IN [state |-> Put(Put(st, "current_step_text", text),
                                      "current_step_number", current_index + 1),
                ret |-> [step |-> text, step_number |-> [int |-> current_index + 1],
                         is_complete |-> FALSE]]

\* Mutant of advance_step: the cursor wraps to the first step when it passes
\* the last one.
AdvanceStep_Wraps(st) ==
    LET current_index == Get(st, "step_index", 0)
        step_keys == StepKeys(Get(st, "recipe_steps", NoSteps))
        new_index == current_index + 1
    IN IF new_index >= Len(step_keys)
       THEN Put(Put(st, "step_index", 0), "recipe_completed", TRUE)
       ELSE Put(st, "step_index", new_index)

\* advance_step (WebRecipeManagerTool and RecipeManagerTool are the same code)
AdvanceStep(st) ==
    LET current_index == Get(st, "step_index", 0)
        step_keys == StepKeys(Get(st, "recipe_steps", NoSteps))
        new_index == current_index + 1
        st1 == Put(st, "step_index", new_index)
    IN IF new_index >= Len(step_keys)
       THEN Put(st1, "recipe_completed", TRUE)
       ELSE st1

\* exit_loop
ExitLoop(st) == Put(st, "recipe_completed", TRUE)

\* start_cooking_session: initial_state of a new session
InitialState(steps) ==
    [step_index |-> 0,
     recipe_completed |-> FALSE,
     recipe_name |-> "recipe",
     recipe_steps |-> steps,
     timer_active |-> FALSE]

\* The timer keys of a session state, with their values.
TimerKeys ==
    {"timer_active", "timer_duration", "timer_start_time",
     "timer_completed", "timer_completion_notified"}

TimerFields(st) == [k \in TimerKeys \cap DOMAIN st |-> st[k]]

\* now >= startInstant + durationSeconds for the stored timer
Expired(st, clock) ==
    /\ "timer_start_time" \in DOMAIN st
    /\ "timer_duration" \in DOMAIN st
    /\ clock >= st["timer_start_time"] + st["timer_duration"] * TicksPerSecond

\* The stored timer is active and has time left.
Running(st, clock) ==
    /\ Get(st, "timer_active", FALSE)
    /\ ~Expired(st, clock)

\* ------------------------------------------------------------------- Init
Threads == {"t1", "t2"}

\* start_cooking_session has created the session, registered its runner and
\* is running the agent on the greeting.
Init ==
    /\ prog \in {"main", "backend"}
    /\ now = 0
    /\ \E steps \in Recipes : state = InitialState(steps)
    /\ runner = TRUE
    /\ hi = [pc |-> "running", kind |-> "start_cooking_session", msg |-> NoMsg]
    /\ last = [op |-> "create_session"]
    /\ started = NoTimer
    /\ notified = 0
    /\ advanced = 0
    /\ pc = [t \in Threads |-> "idle"]
    /\ loc = [t \in Threads |-> [none |-> TRUE]]
    /\ tool = NoTool
    /\ sessions = NoSessions
    /\ active_runners = {}
    /\ active_timers = NoSessions
    /\ run_timer = <<>>
    /\ completions = NoSessions
    /\ memory = NoSessions
    /\ input = <<>>
    /\ phrase = <<>>

\* The clock advances.
Tick ==
    /\ now < MaxTime
    /\ now' = now + 1
    /\ last' = [op |-> "tick"]
    /\ UNCHANGED <<prog, state, runner, hi, started, notified, advanced, pc, loc, tool, sessions, active_runners,
                   input, phrase,
                   active_timers, run_timer, completions, memory>>

\* ------------------------------------ one request at a time: the tools
\* The agent, run by start_cooking_session or by an interaction, calls
\* web_timer_tool(t).
DoWebTimerTool ==
    /\ hi.pc = "running"
    /\ \E t \in Durations :
        LET r == IF prog = "main" THEN WebTimerTool(state, t, now)
                 ELSE BackendWebTimerTool(state, t, now)
        IN /\ state' = r.state
           /\ last' = [op |-> "web_timer_tool", arg |-> t, status |-> r.status]
           /\ started' = IF r.status = "error" THEN started
                         ELSE [dur |-> t, at |-> now,
                               overwrote |-> /\ Running(state, now)
                                             /\ state["timer_duration"] # t]
           /\ notified' = IF r.status = "error" THEN notified ELSE 0
    /\ UNCHANGED <<prog, now, runner, hi, advanced, pc, loc, tool, sessions, active_runners,
                   input, phrase,
                   active_timers, run_timer, completions, memory>>

\* The agent calls get_current_step.
DoGetCurrentStep ==
    /\ hi.pc = "running"
    /\ LET r == GetCurrentStep(state)
       IN /\ state' = r.state
          /\ last' = [op |-> "get_current_step", ret |-> r.ret]
    /\ UNCHANGED <<prog, now, runner, hi, started, notified, advanced, pc, loc, tool, sessions, active_runners,
                   input, phrase,
                   active_timers, run_timer, completions, memory>>

\* The agent calls advance_step.
DoAdvanceStep ==
    /\ hi.pc = "running"
    /\ Get(state, "step_index", 0) < MaxIndex
    /\ state' = AdvanceStep(state)
    /\ advanced' = advanced + 1
    /\ last' = [op |-> "advance_step", status |-> "success"]
    /\ UNCHANGED <<prog, now, runner, hi, started, notified, pc, loc, tool, sessions, active_runners,
                   input, phrase,
                   active_timers, run_timer, completions, memory>>

\* The agent calls exit_loop.
DoExitLoop ==
    /\ hi.pc = "running"
    /\ state' = ExitLoop(state)
    /\ last' = [op |-> "exit_loop", status |-> "success"]
    /\ UNCHANGED <<prog, now, runner, hi, started, notified, advanced, pc, loc, tool, sessions, active_runners,
                   input, phrase,
                   active_timers, run_timer, completions, memory>>

\* ------------------------------------------------------------ the requests
\* cooking_interaction (main.py) / handle_interaction (backend), up to the
\* agent run: the runner lookup and, in the backend, check_timer_completion.
BeginInteraction ==
    /\ hi.pc = "idle"
    /\ runner
    /\ LET r == IF prog = "backend" THEN CheckTimerCompletion(state)
                ELSE [state |-> state, msg |-> NoMsg]
       IN /\ state' = r.state
          /\ hi' = [pc |-> "running", kind |-> "interaction", msg |-> r.msg]
          /\ last' = [op |-> "check_timer_completion", msg |-> r.msg]
          /\ notified' = IF r.msg = NoMsg THEN notified ELSE notified + 1
    /\ UNCHANGED <<prog, now, runner, started, advanced, pc, loc, tool, sessions, active_runners,
                   input, phrase,
                   active_timers, run_timer, completions, memory>>

\* The agent run is over: the request reads the session back (get_timer_info
\* in main.py), archives and unregisters a completed session (interactions
\* only) and answers.
EndInteraction ==
    /\ hi.pc = "running"
    /\ LET r == IF prog = "main" THEN GetTimerInfo(state, now)
                ELSE [state |-> state, info |-> InactiveInfo]
           recipe_completed == Get(r.state, "recipe_completed", FALSE)
       IN /\ state' = r.state
          /\ runner' = IF hi.kind = "interaction" /\ recipe_completed THEN FALSE ELSE runner
          /\ last' = [op |-> hi.kind,
                      expired |-> Expired(state, now),
                      ret |-> [timer_info |-> r.info,
                               timer_completion_msg |-> hi.msg,
                               current_step |-> Get(r.state, "current_step_number", 0),
                               recipe_completed |-> recipe_completed]]
    /\ hi' = [pc |-> "idle", kind |-> "none", msg |-> NoMsg]
    /\ UNCHANGED <<prog, now, started, notified, advanced, pc, loc, tool, sessions, active_runners,
                   input, phrase,
                   active_timers, run_timer, completions, memory>>

\* GET /cooking/{session_id}/status: get_cooking_status (main.py, with
\* get_timer_info) / get_session_status (backend)
DoGetStatus ==
    /\ LET r == IF prog = "main" THEN GetTimerInfo(state, now)
                ELSE [state |-> state, info |-> InactiveInfo]
       IN /\ state' = r.state
          /\ last' = [op |-> "get_status",
                      expired |-> Expired(state, now),
                      ret |-> [timer_info |-> r.info,
                               timer_completion_msg |-> NoMsg,
                               current_step |-> Get(r.state, "current_step_number", 0),
                               recipe_completed |-> Get(r.state, "recipe_completed", FALSE)]]
    /\ UNCHANGED <<prog, now, runner, hi, started, notified, advanced, pc, loc, tool, sessions, active_runners,
                   input, phrase,
                   active_timers, run_timer, completions, memory>>

Next ==
    \/ Tick
    \/ DoWebTimerTool
    \/ DoGetCurrentStep
    \/ DoAdvanceStep
    \/ DoExitLoop
    \/ BeginInteraction
    \/ EndInteraction
    \/ DoGetStatus

\* Requests served one at a time; status polls at any moment.
Spec == Init /\ [][Next]_vars

\* The backend program, with the clock advancing and every request that can
\* be served eventually served: the client keeps sending interactions and
\* the agent run of each one ends.
InitBackend == Init /\ prog = "backend"

FairSpec ==
    /\ InitBackend
    /\ [][Next]_vars
    /\ WF_vars(Tick)
    /\ WF_vars(BeginInteraction)
    /\ WF_vars(EndInteraction)

\* ------------------------------------------------- concurrent callers
\* main.py takes no lock and keeps no version of the session state: callers
\* running on different threads execute advance_step, get_timer_info and
\* web_timer_tool statement by statement against the same state dict.
\* Each thread runs one call at a time.

\* advance_step: current_index = tool_context.state.get("step_index", 0)
AdvRead(t) ==
    /\ pc[t] = "idle"
    /\ advanced < MaxIndex
    /\ pc' = [pc EXCEPT ![t] = "adv_store"]
    /\ loc' = [loc EXCEPT ![t] = [current_index |-> Get(state, "step_index", 0)]]
    /\ advanced' = advanced + 1
    /\ last' = [op |-> "thread"]
    /\ UNCHANGED <<prog, now, state, runner, hi, started, notified, tool, sessions, active_runners,
                   input, phrase,
                   active_timers, run_timer, completions, memory>>

\* advance_step: tool_context.state["step_index"] = new_index
AdvStore(t) ==
    /\ pc[t] = "adv_store"
    /\ state' = Put(state, "step_index", loc[t].current_index + 1)
    /\ pc' = [pc EXCEPT ![t] = "adv_complete"]
    /\ last' = [op |-> "thread"]
    /\ UNCHANGED <<prog, now, runner, hi, started, notified, advanced, loc, tool, sessions, active_runners,
                   input, phrase,
                   active_timers, run_timer, completions, memory>>

\* advance_step: if new_index >= len(step_keys): recipe_completed = True; return
AdvComplete(t) ==
    /\ pc[t] = "adv_complete"
    /\ state' = IF loc[t].current_index + 1 >= Len(StepKeys(Get(state, "recipe_steps", NoSteps)))
                THEN Put(state, "recipe_completed", TRUE)
                ELSE state
    /\ pc' = [pc EXCEPT ![t] = "idle"]
    /\ loc' = [loc EXCEPT ![t] = [none |-> TRUE]]
    /\ last' = [op |-> "thread"]
    /\ UNCHANGED <<prog, now, runner, hi, started, notified, advanced, tool, sessions, active_runners,
                   input, phrase,
                   active_timers, run_timer, completions, memory>>

\* web_timer_tool(d): the validation and tool_context.state["timer_active"] = True
WttActive(t) ==
    /\ pc[t] = "idle"
    /\ \E d \in Durations :
        IF d < 0
        THEN UNCHANGED <<state, pc, loc,
                   input, phrase,
                   active_timers, run_timer, completions, memory>>
        ELSE /\ state' = Put(state, "timer_active", TRUE)
             /\ pc' = [pc EXCEPT ![t] = "wtt_duration"]
             /\ loc' = [loc EXCEPT ![t] = [time_in_seconds |-> d]]
    /\ last' = [op |-> "thread"]
    /\ UNCHANGED <<prog, now, runner, hi, started, notified, advanced, tool, sessions, active_runners,
                   input, phrase,
                   active_timers, run_timer, completions, memory>>

\* web_timer_tool: tool_context.state["timer_duration"] = time_in_seconds
WttDuration(t) ==
    /\ pc[t] = "wtt_duration"
    /\ state' = Put(state, "timer_duration", loc[t].time_in_seconds)
    /\ pc' = [pc EXCEPT ![t] = "wtt_start"]
    /\ last' = [op |-> "thread"]
    /\ UNCHANGED <<prog, now, runner, hi, started, notified, advanced, loc, tool, sessions, active_runners,
                   input, phrase,
                   active_timers, run_timer, completions, memory>>

\* web_timer_tool: tool_context.state["timer_start_time"] = now; return
WttStart(t) ==
    /\ pc[t] = "wtt_start"
    /\ state' = Put(state, "timer_start_time", now)
    /\ started' = [dur |-> loc[t].time_in_seconds, at |-> now, overwrote |-> FALSE]
    /\ pc' = [pc EXCEPT ![t] = "idle"]
    /\ loc' = [loc EXCEPT ![t] = [none |-> TRUE]]
    /\ last' = [op |-> "thread"]
    /\ UNCHANGED <<prog, now, runner, hi, notified, advanced, tool, sessions, active_runners,
                   input, phrase,
                   active_timers, run_timer, completions, memory>>

\* get_timer_info: if not session_state.get("timer_active"): return inactive
GtiActive(t) ==
    /\ pc[t] = "idle"
    /\ pc' = [pc EXCEPT ![t] = IF Get(state, "timer_active", FALSE)
                               THEN "gti_start" ELSE "idle"]
    /\ last' = [op |-> "thread"]
    /\ UNCHANGED <<prog, now, state, runner, hi, started, notified, advanced, loc, tool, sessions, active_runners,
                   input, phrase,
                   active_timers, run_timer, completions, memory>>

\* get_timer_info: start_time_str = session_state.get("timer_start_time")
GtiStart(t) ==
    /\ pc[t] = "gti_start"
    /\ loc' = [loc EXCEPT ![t] = [has_start |-> "timer_start_time" \in DOMAIN state,
                                  start_time |-> Get(state, "timer_start_time", 0)]]
    /\ pc' = [pc EXCEPT ![t] = "gti_duration"]
    /\ last' = [op |-> "thread"]
    /\ UNCHANGED <<prog, now, state, runner, hi, started, notified, advanced, tool, sessions, active_runners,
                   input, phrase,
                   active_timers, run_timer, completions, memory>>

\* get_timer_info: duration = session_state.get("timer_duration");
\* if not start_time_str or not duration: return inactive
GtiDuration(t) ==
    /\ pc[t] = "gti_duration"
    /\ LET duration == Get(state, "timer_duration", 0)
       IN IF ~loc[t].has_start \/ duration = 0
          THEN /\ pc' = [pc EXCEPT ![t] = "idle"]
               /\ loc' = [loc EXCEPT ![t] = [none |-> TRUE]]
          ELSE /\ pc' = [pc EXCEPT ![t] = "gti_clock"]
               /\ loc' = [loc EXCEPT ![t] = [start_time |-> loc[t].start_time,
                                             duration |-> duration]]
    /\ last' = [op |-> "thread"]
    /\ UNCHANGED <<prog, now, state, runner, hi, started, notified, advanced, tool, sessions, active_runners,
                   input, phrase,
                   active_timers, run_timer, completions, memory>>

\* get_timer_info: elapsed = (datetime.now() - start_time).total_seconds();
\* remaining = max(0, duration - elapsed); a timer with time left is
\* returned as active
GtiClock(t) ==
    /\ pc[t] = "gti_clock"
    /\ IF RemainingTicks(loc[t].duration, loc[t].start_time, now) <= 0
       THEN /\ pc' = [pc EXCEPT ![t] = "gti_flip"]
            /\ loc' = loc
       ELSE /\ pc' = [pc EXCEPT ![t] = "idle"]
            /\ loc' = [loc EXCEPT ![t] = [none |-> TRUE]]
    /\ last' = [op |-> "thread"]
    /\ UNCHANGED <<prog, now, state, runner, hi, started, notified, advanced, tool, sessions, active_runners,
                   input, phrase,
                   active_timers, run_timer, completions, memory>>

\* get_timer_info: session_state["timer_active"] = False; return inactive
GtiFlip(t) ==
    /\ pc[t] = "gti_flip"
    /\ state' = Put(state, "timer_active", FALSE)
    /\ last' = [op |-> "expire_flip",
                start_time |-> loc[t].start_time, duration |-> loc[t].duration]
    /\ pc' = [pc EXCEPT ![t] = "idle"]
    /\ loc' = [loc EXCEPT ![t] = [none |-> TRUE]]
    /\ UNCHANGED <<prog, now, runner, hi, started, notified, advanced, tool, sessions, active_runners,
                   input, phrase,
                   active_timers, run_timer, completions, memory>>

NextConc ==
    \/ Tick
    \/ \E t \in Threads :
        \/ AdvRead(t)
        \/ AdvStore(t)
        \/ AdvComplete(t)
        \/ WttActive(t)
        \/ WttDuration(t)
        \/ WttStart(t)
        \/ GtiActive(t)
        \/ GtiStart(t)
        \/ GtiDuration(t)
        \/ GtiClock(t)
        \/ GtiFlip(t)

\* main.py with two callers on the same session at once.
InitConc == Init /\ prog = "main"

SpecConc == InitConc /\ [][NextConc]_vars

\* ------------------------------------------------ the step sequencer
\* The recipe tools alone, for the three programs that carry them: main.py
\* and the backend keep the steps in the session state, the command-line
\* program (agents/sous_chef_agent.py) keeps them in its RecipeManagerTool
\* object and sorts the keys as they are (strings).

\* The characters of a step key, as digits.
DigitsOfKey(k) ==
    CASE k = "1" -> <<1>>
      [] k = "2" -> <<2>>
      [] k = "3" -> <<3>>
      [] k = "10" -> <<1, 0>>

\* a < b on Python str: character by character, a proper prefix first
RECURSIVE StrLess(_, _)
StrLess(a, b) ==
    IF a = <<>> THEN b # <<>>
    ELSE IF b = <<>> THEN FALSE
    ELSE IF Head(a) # Head(b) THEN Head(a) < Head(b)
    ELSE StrLess(Tail(a), Tail(b))

\* sorted(steps.keys()) on str keys
RECURSIVE SortStrs(_)
SortStrs(S) ==
    IF S = {} THEN <<>>
    ELSE LET m == CHOOSE x \in S :
                    \A y \in S \ {x} : StrLess(DigitsOfKey(x), DigitsOfKey(y))
         IN <<m>> \o SortStrs(S \ {m})

\* RecipeManagerTool.__init__(steps)
RecipeManagerTool(steps) == [steps |-> steps, step_keys |-> SortStrs(DOMAIN steps)]

\* self._step_keys[i], self._steps[key] and the stores that follow: a list
\* index out of range raises IndexError.
CliStepAt(tl, st, i) ==
    IF i + 1 \notin DOMAIN tl.step_keys
    THEN [state |-> st, ret |-> [error |-> "IndexError"]]
    ELSE LET text == tl.steps[tl.step_keys[i + 1]]
         IN [state |-> Put(Put(st, "current_step_text", text),
                                   "current_step_number", i + 1),
             ret |-> [step |-> text, step_number |-> [int |-> i + 1],
                      is_complete |-> FALSE]]

\* Mutant of RecipeManagerTool.get_current_step: the end-of-recipe test is
\* > instead of >=.
CliGetCurrentStep_OffByOne(tl, st) ==
    LET current_index == Get(st, "step_index", 0)
    IN IF current_index > Len(tl.step_keys)
       THEN [state |-> Put(st, "recipe_completed", TRUE),
             ret |-> [step |-> COMPLETION_PHRASE, step_number |-> [str |-> "complete"],
                      is_complete |-> TRUE]]
       ELSE CliStepAt(tl, st, current_index)

\* RecipeManagerTool.get_current_step of agents/sous_chef_agent.py
CliGetCurrentStep(tl, st) ==
    LET current_index == Get(st, "step_index", 0)
    IN IF current_index >= Len(tl.step_keys)
       THEN [state |-> Put(st, "recipe_completed", TRUE),
             ret |-> [step |-> COMPLETION_PHRASE, step_number |-> [str |-> "complete"],
                      is_complete |-> TRUE]]
       ELSE CliStepAt(tl, st, current_index)

\* RecipeManagerTool.advance_step of agents/sous_chef_agent.py
CliAdvanceStep(tl, st) ==
    LET current_index == Get(st, "step_index", 0)
        new_index == current_index + 1
        st1 == Put(st, "step_index", new_index)
    IN IF new_index >= Len(tl.step_keys)
       THEN Put(st1, "recipe_completed", TRUE)
       ELSE st1

\* run_sous_chef_session: the initial state of the command-line session
CliInitialState == [step_index |-> 0, recipe_completed |-> FALSE]

\* Step maps handed to the sequencer: those of Recipes, a single step, and
\* two steps with a gap between the keys.
StepRecipes ==
    Recipes \cup
    { [k \in {"1"} |-> "A"],
      [k \in {"3", "1"} |-> IF k = "1" THEN "A" ELSE "C"] }

\* The step map of the session, wherever the program keeps it.
RecipeSteps == IF prog = "cli" THEN tool.steps ELSE Get(state, "recipe_steps", NoSteps)

\* The number of steps of the session's recipe.
NumSteps == Cardinality(DOMAIN RecipeSteps)

InitSteps ==
    /\ prog \in {"main", "backend", "cli"}
    /\ now = 0
    /\ \E steps \in StepRecipes :
          IF prog = "cli"
          THEN state = CliInitialState /\ tool = RecipeManagerTool(steps)
          ELSE state = InitialState(steps) /\ tool = NoTool
    /\ runner = TRUE
    /\ hi = [pc |-> "running", kind |-> "start_cooking_session", msg |-> NoMsg]
    /\ last = [op |-> "create_session"]
    /\ started = NoTimer
    /\ notified = 0
    /\ advanced = 0
    /\ pc = [t \in Threads |-> "idle"]
    /\ loc = [t \in Threads |-> [none |-> TRUE]]
    /\ sessions = NoSessions
    /\ active_runners = {}
    /\ active_timers = NoSessions
    /\ run_timer = <<>>
    /\ completions = NoSessions
    /\ memory = NoSessions
    /\ input = <<>>
    /\ phrase = <<>>

\* get_current_step
StepsGetCurrentStep ==
    /\ LET r == IF prog = "cli" THEN CliGetCurrentStep(tool, state)
                ELSE GetCurrentStep(state)
       IN /\ state' = r.state
          /\ last' = [op |-> "get_current_step", ret |-> r.ret]
    /\ UNCHANGED <<prog, now, runner, hi, started, notified, advanced, pc, loc,
                   tool, sessions, active_runners,
                   input, phrase,
                   active_timers, run_timer, completions, memory>>

\* advance_step
StepsAdvanceStep ==
    /\ advanced < MaxAdvance
    /\ state' = IF prog = "cli" THEN CliAdvanceStep(tool, state) ELSE AdvanceStep(state)
    /\ advanced' = advanced + 1
    /\ last' = [op |-> "advance_step", status |-> "success"]
    /\ UNCHANGED <<prog, now, runner, hi, started, notified, pc, loc,
                   tool, sessions, active_runners,
                   input, phrase,
                   active_timers, run_timer, completions, memory>>

\* get_cooking_status (main.py) / get_session_status (backend); the
\* command-line program has no status operation.
StepsGetStatus ==
    /\ prog # "cli"
    /\ DoGetStatus

NextSteps ==
    \/ StepsGetCurrentStep
    \/ StepsAdvanceStep
    \/ StepsGetStatus

SpecSteps == InitSteps /\ [][NextSteps]_vars

\* ------------------------------------------------------ the session table
\* Several sessions: the session service (sessions) and active_runners, with
\* start_cooking_session, cooking_interaction / handle_interaction,
\* get_cooking_status / get_session_status and end_cooking_session /
\* end_session called with any session id.  uuid4 never repeats an id: the
\* ids are handed out in order.

SessionIds == 1 .. MaxSessions

\* Recipes a session of the table is started with: no steps, and two steps.
SessionRecipes == {r \in Recipes : Cardinality(DOMAIN r) <= 2}

\* What the agent does in one run: nothing, or one call of a recipe tool.
AgentCalls == {"none", "get_current_step", "advance_step", "exit_loop"}

\* The same, with a call of web_timer_tool (for one second).
TimedAgentCalls == AgentCalls \cup {"web_timer_tool"}

\* runner.run_async: the agent's tool call applied to the session state
RunAgent(st, call, clock) ==
    CASE call = "none" -> st
      [] call = "get_current_step" -> GetCurrentStep(st).state
      [] call = "advance_step" -> AdvanceStep(st)
      [] call = "exit_loop" -> ExitLoop(st)
      [] call = "web_timer_tool" ->
            IF prog = "main" THEN WebTimerTool(st, 1, clock).state
            ELSE BackendWebTimerTool(st, 1, clock).state

\* The agent may make this call: the cursor is kept within MaxIndex, and a
\* session of the table is given one timer.
MayCall(st, call) ==
    /\ call = "advance_step" => Get(st, "step_index", 0) < MaxIndex
    /\ call = "web_timer_tool" => "timer_start_time" \notin DOMAIN st

\* start_cooking_session(recipe), the agent answering the greeting with call
StartCookingSession(ss, rs, steps, call, clock) ==
    LET session_id == Cardinality(DOMAIN ss) + 1
        st1 == RunAgent(InitialState(steps), call, clock)
        r == IF prog = "main" THEN GetTimerInfo(st1, clock)
             ELSE [state |-> st1, info |-> InactiveInfo]
    IN [sessions |-> [i \in DOMAIN ss \cup {session_id} |->
                         IF i = session_id THEN r.state ELSE ss[i]],
        runners |-> rs \cup {session_id},
        ret |-> [session_id |-> session_id,
                 recipe_completed |-> Get(r.state, "recipe_completed", FALSE)]]

\* raise HTTPException(status_code=..., detail=...)
HTTPException(status_code, detail) ==
    [error |-> "HTTPException", status_code |-> status_code, message |-> detail]

\* raise ValueError(message)
ValueError(message) ==
    [error |-> "ValueError", status_code |-> 0, message |-> message]

\* The handlers of main.py run inside try: ... except Exception as e: raise
\* HTTPException(status_code=500, detail=str(e)).  HTTPException is an
\* Exception: one raised inside the try is caught as well.
ExceptException(e) == HTTPException(500, e.message)

\* cooking_interaction (main.py) raises the 404 inside its try;
\* handle_interaction (backend) raises ValueError.
RunnerNotFound ==
    IF prog = "main"
    THEN ExceptException(HTTPException(404, "Cooking session not found"))
    ELSE ValueError("Cooking session not found")

\* get_cooking_status (main.py) / get_session_status (backend)
SessionNotFound ==
    IF prog = "main"
    THEN ExceptException(HTTPException(404, "Session not found"))
    ELSE ValueError("Session not found")

\* Mutant of the interaction handler: the sessions share one state dict, so
\* the state the agent leaves is seen under every id.
HandleInteraction_SharedState(ss, rs, session_id, call, clock) ==
    IF session_id \notin rs
    THEN [sessions |-> ss, runners |-> rs, ret |-> RunnerNotFound]
    ELSE LET st0 == IF prog = "backend" THEN CheckTimerCompletion(ss[session_id]).state
                    ELSE ss[session_id]
             st1 == RunAgent(st0, call, clock)
             r == IF prog = "main" THEN GetTimerInfo(st1, clock)
                  ELSE [state |-> st1, info |-> InactiveInfo]
             recipe_completed == Get(r.state, "recipe_completed", FALSE)
         IN [sessions |-> [i \in DOMAIN ss |-> r.state],
             runners |-> IF recipe_completed THEN rs \ {session_id} ELSE rs,
             ret |-> [session_id |-> session_id,
                      recipe_completed |-> recipe_completed]]

\* cooking_interaction / handle_interaction
HandleInteraction(ss, rs, session_id, call, clock) ==
    IF session_id \notin rs
    THEN [sessions |-> ss, runners |-> rs, ret |-> RunnerNotFound]
    ELSE LET st0 == IF prog = "backend" THEN CheckTimerCompletion(ss[session_id]).state
                    ELSE ss[session_id]
             st1 == RunAgent(st0, call, clock)
             r == IF prog = "main" THEN GetTimerInfo(st1, clock)
                  ELSE [state |-> st1, info |-> InactiveInfo]
             recipe_completed == Get(r.state, "recipe_completed", FALSE)
         IN [sessions |-> [ss EXCEPT ![session_id] = r.state],
             runners |-> IF recipe_completed THEN rs \ {session_id} ELSE rs,
             ret |-> [session_id |-> session_id,
                      recipe_completed |-> recipe_completed]]

\* Mutant of get_session_status: a session that is not stored is created
\* empty and reported.
GetSessionStatus_CreatesOnMiss(ss, session_id, clock) ==
    LET st0 == IF session_id \in DOMAIN ss THEN ss[session_id] ELSE InitialState(NoSteps)
        r == IF prog = "main" THEN GetTimerInfo(st0, clock)
             ELSE [state |-> st0, info |-> InactiveInfo]
    IN [sessions |-> [i \in DOMAIN ss \cup {session_id} |->
                         IF i = session_id THEN r.state ELSE ss[i]],
        ret |-> [session_id |-> session_id,
                 current_step |-> Get(r.state, "current_step_number", 0),
                 recipe_completed |-> Get(r.state, "recipe_completed", FALSE)]]

\* get_cooking_status / get_session_status
GetSessionStatus(ss, session_id, clock) ==
    IF session_id \notin DOMAIN ss
    THEN [sessions |-> ss, ret |-> SessionNotFound]
    ELSE LET r == IF prog = "main" THEN GetTimerInfo(ss[session_id], clock)
                  ELSE [state |-> ss[session_id], info |-> InactiveInfo]
         IN [sessions |-> [ss EXCEPT ![session_id] = r.state],
             ret |-> [session_id |-> session_id,
                      current_step |-> Get(r.state, "current_step_number", 0),
                      recipe_completed |-> Get(r.state, "recipe_completed", FALSE)]]

\* Mutant of end_session: the runner is deleted without the membership test.
EndSession_NoMembershipTest(rs, session_id) ==
    IF session_id \in rs
    THEN [runners |-> rs \ {session_id},
          ret |-> [message |-> "Cooking session ended", session_id |-> session_id]]
    ELSE [runners |-> rs,
          ret |-> IF prog = "main" THEN ExceptException([message |-> "KeyError"])
                  ELSE [error |-> "KeyError", status_code |-> 0, message |-> "KeyError"]]

\* end_cooking_session / end_session
EndSession(rs, session_id) ==
    [runners |-> IF session_id \in rs THEN rs \ {session_id} ELSE rs,
     ret |-> [message |-> "Cooking session ended", session_id |-> session_id]]

InitSessions ==
    /\ prog \in {"main", "backend"}
    /\ now = 0
    /\ state = InitialState(NoSteps)
    /\ runner = FALSE
    /\ hi = [pc |-> "idle", kind |-> "none", msg |-> NoMsg]
    /\ last = [op |-> "none"]
    /\ started = NoTimer
    /\ notified = 0
    /\ advanced = 0
    /\ pc = [t \in Threads |-> "idle"]
    /\ loc = [t \in Threads |-> [none |-> TRUE]]
    /\ tool = NoTool
    /\ sessions = NoSessions
    /\ active_runners = {}
    /\ active_timers = NoSessions
    /\ run_timer = <<>>
    /\ completions = NoSessions
    /\ memory = NoSessions
    /\ input = <<>>
    /\ phrase = <<>>

TableStartCookingSession ==
    /\ Cardinality(DOMAIN sessions) < MaxSessions
    /\ \E steps \in SessionRecipes, call \in AgentCalls :
          LET r == StartCookingSession(sessions, active_runners, steps, call, now)
          IN /\ sessions' = r.sessions
             /\ active_runners' = r.runners
             /\ last' = [op |-> "start_cooking_session", id |-> r.ret.session_id,
                         num_steps |-> Cardinality(DOMAIN steps), ret |-> r.ret]
    /\ UNCHANGED <<prog, now, state, runner, hi, started, notified, advanced, pc, loc,
                   tool,
                   input, phrase,
                   active_timers, run_timer, completions, memory>>

TableHandleInteraction ==
    /\ \E session_id \in SessionIds, call \in AgentCalls :
          /\ session_id \in DOMAIN sessions => MayCall(sessions[session_id], call)
          /\ LET r == HandleInteraction(sessions, active_runners, session_id, call, now)
             IN /\ sessions' = r.sessions
                /\ active_runners' = r.runners
                /\ last' = [op |-> "handle_interaction", id |-> session_id, ret |-> r.ret]
    /\ UNCHANGED <<prog, now, state, runner, hi, started, notified, advanced, pc, loc,
                   tool,
                   input, phrase,
                   active_timers, run_timer, completions, memory>>

TableGetSessionStatus ==
    /\ \E session_id \in SessionIds :
          LET r == GetSessionStatus(sessions, session_id, now)
          IN /\ sessions' = r.sessions
             /\ last' = [op |-> "get_session_status", id |-> session_id, ret |-> r.ret]
    /\ UNCHANGED <<prog, now, state, runner, hi, started, notified, advanced, pc, loc,
                   tool, active_runners,
                   input, phrase,
                   active_timers, run_timer, completions, memory>>

\* end_cooking_session / end_session
TableEndSession ==
    /\ \E session_id \in SessionIds :
          LET r == EndSession(active_runners, session_id)
          IN /\ active_runners' = r.runners
             /\ last' = [op |-> "end_session", id |-> session_id,
                         was_registered |-> session_id \in active_runners, ret |-> r.ret]
    /\ UNCHANGED <<prog, now, state, runner, hi, started, notified, advanced, pc, loc,
                   tool, sessions,
                   input, phrase,
                   active_timers, run_timer, completions, memory>>

NextSessions ==
    \/ TableStartCookingSession
    \/ TableHandleInteraction
    \/ TableGetSessionStatus
    \/ TableEndSession

SpecSessions == InitSessions /\ [][NextSessions]_vars

\* ------------------------------------------------- sessions side by side
\* The sessions of the table with their timers and the clock: each request
\* names one session id; the agent makes at most MaxCalls tool calls in all.
\* Every session is started with the two-step recipe and an agent that
\* only greets.

\* The agent makes at most MaxCalls tool calls in all.
WithinCalls(call) == call # "none" => advanced < MaxCalls

\* The tool calls issued, after a request whose agent run (if it ran) made call.
Called(ran, call) == IF ran /\ call # "none" THEN advanced + 1 ELSE advanced

TwoSteps == [k \in {"1", "2"} |-> IF k = "1" THEN "A" ELSE "B"]

\* The clock advances by one second.
TableTick ==
    /\ now + TicksPerSecond <= MaxTime
    /\ now' = now + TicksPerSecond
    /\ last' = [op |-> "tick"]
    /\ UNCHANGED <<prog, state, runner, hi, started, notified, advanced, pc, loc,
                   tool, sessions, active_runners,
                   input, phrase,
                   active_timers, run_timer, completions, memory>>

SideStartCookingSession ==
    /\ Cardinality(DOMAIN sessions) < MaxSessions
    /\ LET r == StartCookingSession(sessions, active_runners, TwoSteps, "none", now)
       IN /\ sessions' = r.sessions
          /\ active_runners' = r.runners
          /\ last' = [op |-> "start_cooking_session", id |-> r.ret.session_id,
                      num_steps |-> Cardinality(DOMAIN TwoSteps), ret |-> r.ret]
    /\ UNCHANGED <<prog, now, state, runner, hi, started, notified, advanced, pc, loc,
                   tool,
                   input, phrase,
                   active_timers, run_timer, completions, memory>>

SideHandleInteraction ==
    /\ \E session_id \in DOMAIN sessions, call \in TimedAgentCalls \ {"none"} :
          /\ MayCall(sessions[session_id], call)
          /\ WithinCalls(call)
          /\ LET r == HandleInteraction(sessions, active_runners, session_id, call, now)
             IN /\ sessions' = r.sessions
                /\ active_runners' = r.runners
                /\ last' = [op |-> "handle_interaction", id |-> session_id,
                            call |-> call, ret |-> r.ret]
          /\ advanced' = Called(session_id \in active_runners, call)
    /\ UNCHANGED <<prog, now, state, runner, hi, started, notified, pc, loc,
                   tool,
                   input, phrase,
                   active_timers, run_timer, completions, memory>>

SideGetSessionStatus ==
    /\ \E session_id \in DOMAIN sessions :
          LET r == GetSessionStatus(sessions, session_id, now)
          IN /\ sessions' = r.sessions
             /\ last' = [op |-> "get_session_status", id |-> session_id,
                         expired |-> Expired(sessions[session_id], now), ret |-> r.ret]
    /\ UNCHANGED <<prog, now, state, runner, hi, started, notified, advanced, pc, loc,
                   tool, active_runners,
                   input, phrase,
                   active_timers, run_timer, completions, memory>>

NextSide ==
    \/ TableTick
    \/ SideStartCookingSession
    \/ SideHandleInteraction
    \/ SideGetSessionStatus
    \/ TableEndSession

SpecSide == InitSessions /\ [][NextSide]_vars

\* ------------------------------------------------------- starting a timer
\* One timer start from its call to its return, with the clock running
\* meanwhile: web_timer_tool (main.py, backend) and timer_tool of
\* agents/sous_chef_agent.py, which returns run_countdown_timer(time_in_seconds).

\* range(time_in_seconds, 0, -1)
CountdownRange(t) == [i \in 1 .. Max(t, 0) |-> t - i + 1]

\* Mutant of the timer start: web_timer_tool counts down like the
\* command-line timer_tool.
TimerToolSleeps_WebCountsDown(p, t) == Len(CountdownRange(t))

\* The time.sleep(1) calls a timer start of program p makes before it
\* returns: one per iteration of run_countdown_timer's loop; web_timer_tool
\* has none.
TimerToolSleeps(p, t) == IF p = "cli" THEN Len(CountdownRange(t)) ELSE 0

InitStartTimer ==
    /\ prog \in {"main", "backend", "cli"}
    /\ now = 0
    /\ IF prog = "cli"
       THEN state = CliInitialState /\ tool = RecipeManagerTool(TwoSteps)
       ELSE state = InitialState(TwoSteps) /\ tool = NoTool
    /\ runner = TRUE
    /\ hi = [pc |-> "running", kind |-> "interaction", msg |-> NoMsg]
    /\ last = [op |-> "create_session"]
    /\ started = NoTimer
    /\ notified = 0
    /\ advanced = 0
    /\ pc = [t \in Threads |-> "idle"]
    /\ loc = [t \in Threads |-> [none |-> TRUE]]
    /\ sessions = NoSessions
    /\ active_runners = {}
    /\ active_timers = NoSessions
    /\ run_timer = <<>>
    /\ completions = NoSessions
    /\ memory = NoSessions
    /\ input = <<>>
    /\ phrase = <<>>

\* The agent calls the timer tool with time_in_seconds = t.
CallTimerTool ==
    /\ hi.pc = "running"
    /\ \E t \in Durations :
          /\ hi' = [pc |-> "timer_tool", kind |-> hi.kind, msg |-> NoMsg,
                    arg |-> t, called_at |-> now,
                    sleeps |-> TimerToolSleeps(prog, t), slept |-> 0,
                    wake |-> now + TicksPerSecond]
          /\ last' = [op |-> "call_timer_tool", arg |-> t]
    /\ UNCHANGED <<prog, now, state, runner, started, notified, advanced, pc, loc,
                   tool, sessions, active_runners,
                   input, phrase,
                   active_timers, run_timer, completions, memory>>

\* time.sleep(1) returns once a second has passed, and the loop goes on.
TimeSleep ==
    /\ hi.pc = "timer_tool"
    /\ hi.sleeps > 0
    /\ now >= hi.wake
    /\ hi' = [hi EXCEPT !.sleeps = @ - 1, !.slept = @ + 1,
                        !.wake = now + TicksPerSecond]
    /\ last' = [op |-> "time.sleep"]
    /\ UNCHANGED <<prog, now, state, runner, started, notified, advanced, pc, loc,
                   tool, sessions, active_runners,
                   input, phrase,
                   active_timers, run_timer, completions, memory>>

\* The timer tool returns: web_timer_tool after its stores,
\* run_countdown_timer after its loop.
ReturnTimerTool ==
    /\ hi.pc = "timer_tool"
    /\ hi.sleeps = 0
    /\ LET r == IF prog = "cli" THEN [state |-> state, status |-> "success"]
                ELSE IF prog = "main" THEN WebTimerTool(state, hi.arg, now)
                ELSE BackendWebTimerTool(state, hi.arg, now)
       IN /\ state' = r.state
          /\ last' = [op |-> "timer_tool", arg |-> hi.arg, status |-> r.status,
                      called_at |-> hi.called_at, returned_at |-> now,
                      slept |-> hi.slept]
    /\ hi' = [pc |-> "running", kind |-> hi.kind, msg |-> NoMsg]
    /\ UNCHANGED <<prog, now, runner, started, notified, advanced, pc, loc,
                   tool, sessions, active_runners,
                   input, phrase,
                   active_timers, run_timer, completions, memory>>

NextStartTimer ==
    \/ Tick
    \/ CallTimerTool
    \/ TimeSleep
    \/ ReturnTimerTool

SpecStartTimer == InitStartTimer /\ [][NextStartTimer]_vars

\* --------------------------------------------------------- duration parsing
\* A text is a sequence of characters.  The parsers search it with regular
\* expressions of the shape (\d+) separator literal optional-tail; re.search
\* returns the leftmost match of one pattern.

\* Bound of the numbers written in a text.
MaxNumber == 20

DigitChars == <<"0", "1", "2", "3", "4", "5", "6", "7", "8", "9">>

\* \d
IsDigit(c) == \E i \in DOMAIN DigitChars : DigitChars[i] = c

DigitValue(c) == (CHOOSE i \in DOMAIN DigitChars : DigitChars[i] = c) - 1

\* int(s) for a string of digits
RECURSIVE IntOfDigits(_)
IntOfDigits(s) ==
    IF s = <<>> THEN 0
    ELSE IntOfDigits(SubSeq(s, 1, Len(s) - 1)) * 10 + DigitValue(s[Len(s)])

\* str(n), n >= 0
RECURSIVE StrOfInt(_)
StrOfInt(n) ==
    IF n < 10 THEN <<DigitChars[n + 1]>>
    ELSE StrOfInt(n \div 10) \o <<DigitChars[(n % 10) + 1]>>

\* \s
IsSpace(c) == c = " "

\* str.lower, on the letters the texts are written with
LowerChar(c) ==
    CASE c = "H" -> "h"
      [] c = "M" -> "m"
      [] c = "S" -> "s"
      [] OTHER -> c

Lower(s) == [i \in DOMAIN s |-> LowerChar(s[i])]

\* str.strip
RECURSIVE Strip(_)
Strip(s) ==
    IF s = <<>> THEN s
    ELSE IF IsSpace(s[1]) THEN Strip(Tail(s))
    ELSE IF IsSpace(s[Len(s)]) THEN Strip(SubSeq(s, 1, Len(s) - 1))
    ELSE s

\* The words of the patterns and of the texts.
SecondWord == <<"s", "e", "c", "o", "n", "d">>
MinuteWord == <<"m", "i", "n", "u", "t", "e">>
HourWord == <<"h", "o", "u", "r">>
SecWord == <<"s", "e", "c">>
MinWord == <<"m", "i", "n">>
HrWord == <<"h", "r">>
TimerWord == <<"t", "i", "m", "e", "r">>
PluralS == <<"s">>
NoChars == <<>>

\* A pattern (\d+) sep lit tail? with the multiplier it is listed with.
\* sep is "-" (a hyphen), "\\s*" (any whitespace) or "" (nothing).
Pattern(sep, lit, tail, multiplier) ==
    [sep |-> sep, lit |-> lit, tail |-> tail, multiplier |-> multiplier]

NoMatch == [found |-> FALSE]

\* The last position of the run of digits that starts at position i.
RECURSIVE RunEnd(_, _)
RunEnd(s, i) ==
    IF i < Len(s) /\ IsDigit(s[i + 1]) THEN RunEnd(s, i + 1) ELSE i

\* The first position from k on that holds no whitespace.
RECURSIVE SkipSpaces(_, _)
SkipSpaces(s, k) ==
    IF k <= Len(s) /\ IsSpace(s[k]) THEN SkipSpaces(s, k + 1) ELSE k

\* lit stands in s at position k (compared in lower case under re.IGNORECASE)
LitAt(s, k, lit, ignorecase) ==
    /\ k + Len(lit) - 1 <= Len(s)
    /\ \A m \in DOMAIN lit :
          (IF ignorecase THEN LowerChar(s[k + m - 1]) ELSE s[k + m - 1]) = lit[m]

\* The match of pattern p that starts at position i, if there is one.  \d+ is
\* greedy and takes the whole run of digits, \s* all the whitespace; giving
\* characters back never helps, since what follows in the pattern is a hyphen
\* or a letter.
MatchAt(p, s, i, ignorecase) ==
    IF ~IsDigit(s[i]) THEN NoMatch
    ELSE LET j == RunEnd(s, i)
             k == CASE p.sep = "-" ->
                          IF j < Len(s) /\ s[j + 1] = "-" THEN j + 2 ELSE 0
                    [] p.sep = "\\s*" -> SkipSpaces(s, j + 1)
                    [] OTHER -> j + 1
             e == k + Len(p.lit) - 1
             end == IF p.tail # NoChars /\ LitAt(s, e + 1, p.tail, ignorecase)
                    THEN e + Len(p.tail) ELSE e
         IN IF k # 0 /\ LitAt(s, k, p.lit, ignorecase)
            THEN [found |-> TRUE, start |-> i,
                  group1 |-> SubSeq(s, i, j), group0 |-> SubSeq(s, i, end)]
            ELSE NoMatch

\* The match at the leftmost position from i on that has one.
RECURSIVE SearchFrom(_, _, _, _)
SearchFrom(p, s, i, ignorecase) ==
    IF i > Len(s) THEN NoMatch
    ELSE IF MatchAt(p, s, i, ignorecase).found THEN MatchAt(p, s, i, ignorecase)
    ELSE SearchFrom(p, s, i + 1, ignorecase)

\* re.search(p, s)
Search(p, s, ignorecase) == SearchFrom(p, s, 1, ignorecase)

\* The unit a result is labelled with.
UnitName(multiplier, duration_num) ==
    (IF multiplier = 1 THEN SecondWord
     ELSE IF multiplier = 60 THEN MinuteWord ELSE HourWord)
    \o (IF duration_num # 1 THEN PluralS ELSE NoChars)

\* f"{duration_num} {unit}"
DurationText(duration_num, unit) == StrOfInt(duration_num) \o <<" ">> \o unit

\* Mutant of parse_timer_duration: the minute patterns are tried first.
BackendPatterns_MinutesFirst ==
    << Pattern("-", MinuteWord, NoChars, 60),
       Pattern("\\s*", MinuteWord, NoChars, 60),
       Pattern("-", SecondWord, NoChars, 1),
       Pattern("\\s*", SecondWord, NoChars, 1),
       Pattern("-", HourWord, NoChars, 3600),
       Pattern("\\s*", HourWord, NoChars, 3600) >>

\* backend/tools/timer_tool.py and main.py parse_timer_duration: patterns
BackendPatterns ==
    << Pattern("-", SecondWord, NoChars, 1),
       Pattern("\\s*", SecondWord, NoChars, 1),
       Pattern("-", MinuteWord, NoChars, 60),
       Pattern("\\s*", MinuteWord, NoChars, 60),
       Pattern("-", HourWord, NoChars, 3600),
       Pattern("\\s*", HourWord, NoChars, 3600) >>

\* for pattern, multiplier in patterns: the index of the first pattern from
\* i on that matches s, or 0
RECURSIVE FirstMatching(_, _, _, _)
FirstMatching(patterns, s, i, ignorecase) ==
    IF i > Len(patterns) THEN 0
    ELSE IF Search(patterns[i], s, ignorecase).found THEN i
    ELSE FirstMatching(patterns, s, i + 1, ignorecase)

\* Mutant of parse_timer_duration: the multiplier of a minute is applied to
\* every unit but the second.
DurationSeconds_HoursAsMinutes(duration_num, multiplier) ==
    duration_num * (IF multiplier = 1 THEN 1 ELSE 60)

\* duration_seconds = duration_num * multiplier
DurationSeconds(duration_num, multiplier) == duration_num * multiplier

\* parse_timer_duration(text) of backend/tools/timer_tool.py and main.py
ParseTimerDuration(s) ==
    LET i == FirstMatching(BackendPatterns, s, 1, TRUE)
    IN IF i = 0
       THEN [status |-> "not_found"]
       ELSE LET p == BackendPatterns[i]
                match == Search(p, s, TRUE)
                duration_num == IntOfDigits(match.group1)
            IN [status |-> "success",
                duration_seconds |-> DurationSeconds(duration_num, p.multiplier),
                duration_text |-> DurationText(duration_num,
                                               UnitName(p.multiplier, duration_num)),
                original_match |-> match.group0]

\* agents/sous_chef_agent.py parse_timer_duration: patterns
CliPatterns ==
    << Pattern("\\s*", MinuteWord, PluralS, 60),
       Pattern("\\s*", MinWord, PluralS, 60),
       Pattern("\\s*", SecondWord, PluralS, 1),
       Pattern("\\s*", SecWord, PluralS, 1),
       Pattern("\\s*", HourWord, PluralS, 3600),
       Pattern("\\s*", HrWord, PluralS, 3600) >>

\* total_seconds after the patterns 1 .. n have been tried
RECURSIVE CliTotalSeconds(_, _)
CliTotalSeconds(s, n) ==
    IF n = 0 THEN 0
    ELSE LET match == Search(CliPatterns[n], s, TRUE)
         IN CliTotalSeconds(s, n - 1)
            + (IF match.found
               THEN IntOfDigits(match.group1) * CliPatterns[n].multiplier
               ELSE 0)

\* parse_timer_duration(tool_context, text) of agents/sous_chef_agent.py
CliParseTimerDuration(s) ==
    LET total_seconds == CliTotalSeconds(s, Len(CliPatterns))
    IN IF total_seconds > 0
       THEN [duration |-> total_seconds, status |-> "success"]
       ELSE [duration |-> 0, status |-> "not_found"]

\* Mutant of set_custom_timer: the bare number is tried first.
CustomPatterns_NumberFirst ==
    << Pattern("", NoChars, NoChars, 1),
       Pattern("\\s*", SecWord, NoChars, 1),
       Pattern("\\s*", MinWord, NoChars, 60),
       Pattern("\\s*", HourWord, NoChars, 3600) >>

\* set_custom_timer: patterns
CustomPatterns ==
    << Pattern("\\s*", SecWord, NoChars, 1),
       Pattern("\\s*", MinWord, NoChars, 60),
       Pattern("\\s*", HourWord, NoChars, 3600),
       Pattern("", NoChars, NoChars, 1) >>

\* set_custom_timer(duration_text, tool_context)
SetCustomTimer(st, s) ==
    LET duration_text == Strip(Lower(s))
        i == FirstMatching(CustomPatterns, duration_text, 1, FALSE)
    IN IF i = 0
       THEN [state |-> st, ret |-> [status |-> "error"]]
       ELSE LET p == CustomPatterns[i]
                match == Search(p, duration_text, FALSE)
                duration_num == IntOfDigits(match.group1)
                duration_seconds == duration_num * p.multiplier
            IN [state |-> Put(Put(st, "custom_timer_seconds", duration_seconds),
                                      "custom_timer_text", duration_text),
                ret |-> [status |-> "success",
                         duration_seconds |-> duration_seconds,
                         duration_text |-> DurationText(duration_num,
                                               UnitName(p.multiplier, duration_num))]]


\* The texts given to the parsers.  A text is written from one or two items
\* with a space between them: a duration "N<sep><word>", a bare number, or a
\* word that names no unit.  Each unit word carries the seconds of its unit
\* and whether it is an abbreviation.
Numbers == {1, 2, MaxNumber}

Separators == {<<" ">>, <<"-">>, NoChars}

UnitWord(word, seconds, abbreviated) ==
    [word |-> word, seconds |-> seconds, abbreviated |-> abbreviated]

UnitWords ==
    { UnitWord(SecondWord, 1, FALSE),
      UnitWord(<<"S">> \o Tail(SecondWord) \o PluralS, 1, FALSE),
      UnitWord(MinuteWord, 60, FALSE),
      UnitWord(MinuteWord \o PluralS, 60, FALSE),
      UnitWord(HourWord \o PluralS, 3600, FALSE),
      UnitWord(MinWord, 60, TRUE),
      UnitWord(HrWord, 3600, TRUE) }

Items ==
    {[kind |-> "duration", n |-> n, sep |-> sep, unit |-> u] :
        n \in Numbers, sep \in Separators, u \in UnitWords}
    \cup {[kind |-> "number", n |-> n, sep |-> NoChars,
           unit |-> UnitWord(NoChars, 0, FALSE)] : n \in Numbers}
    \cup {[kind |-> "word", n |-> 0, sep |-> NoChars,
           unit |-> UnitWord(TimerWord, 0, FALSE)]}

Phrases == {<<a>> : a \in Items} \cup {<<a, b>> : a \in Items, b \in Items}

\* The characters of an item.
Render(item) ==
    CASE item.kind = "duration" -> StrOfInt(item.n) \o item.sep \o item.unit.word
      [] item.kind = "number" -> StrOfInt(item.n)
      [] OTHER -> item.unit.word

\* The characters of a phrase.
RECURSIVE RenderAll(_)
RenderAll(items) ==
    IF Len(items) = 1 THEN Render(items[1])
    ELSE Render(items[1]) \o <<" ">> \o RenderAll(Tail(items))

InitParse ==
    /\ prog = "backend"
    /\ now = 0
    /\ state = InitialState(TwoSteps)
    /\ runner = TRUE
    /\ hi = [pc |-> "running", kind |-> "interaction", msg |-> NoMsg]
    /\ last = [op |-> "create_session"]
    /\ started = NoTimer
    /\ notified = 0
    /\ advanced = 0
    /\ pc = [t \in Threads |-> "idle"]
    /\ loc = [t \in Threads |-> [none |-> TRUE]]
    /\ tool = NoTool
    /\ sessions = NoSessions
    /\ active_runners = {}
    /\ active_timers = NoSessions
    /\ run_timer = <<>>
    /\ completions = NoSessions
    /\ memory = NoSessions
    /\ phrase \in Phrases
    /\ input = RenderAll(phrase)

\* parse_timer_duration(text) of backend/tools/timer_tool.py and main.py
DoParseTimerDuration ==
    /\ last' = [op |-> "parse_timer_duration", ret |-> ParseTimerDuration(input)]
    /\ UNCHANGED <<prog, now, state, runner, hi, started, notified, advanced, pc, loc,
                   tool, sessions, active_runners, input, phrase,
                   active_timers, run_timer, completions, memory>>

\* parse_timer_duration(tool_context, text) of agents/sous_chef_agent.py
DoCliParseTimerDuration ==
    /\ last' = [op |-> "cli_parse_timer_duration",
                ret |-> CliParseTimerDuration(input)]
    /\ UNCHANGED <<prog, now, state, runner, hi, started, notified, advanced, pc, loc,
                   tool, sessions, active_runners, input, phrase,
                   active_timers, run_timer, completions, memory>>

\* set_custom_timer(duration_text, tool_context)
DoSetCustomTimer ==
    /\ LET r == SetCustomTimer(state, input)
       IN /\ state' = r.state
          /\ last' = [op |-> "set_custom_timer", before |-> state, ret |-> r.ret]
    /\ UNCHANGED <<prog, now, runner, hi, started, notified, advanced, pc, loc,
                   tool, sessions, active_runners, input, phrase,
                   active_timers, run_timer, completions, memory>>

NextParse ==
    \/ DoParseTimerDuration
    \/ DoCliParseTimerDuration
    \/ DoSetCustomTimer

SpecParse == InitParse /\ [][NextParse]_vars

\* ----------------------------------------------------------- TimerManager
\* Timer/timer_v2.py: one TimerManager, its caller, and the daemon threads
\* start_timer spawns to run _run_timer.  uuid4 never repeats an id: the ids
\* are handed out in order.

MaxTimers == 1
MaxThreads == 2

TimerIds == 1 .. MaxTimers

\* time.time(), in ticks: the clock reads more than any duration since the
\* epoch.
TimeTime(clock) == (MaxDur + 1) * TicksPerSecond + clock

\* Timer(id=timer_id, name=name, duration=duration, remaining=duration,
\* start_time=0); the times in ticks
Timer(duration) ==
    [duration |-> duration, remaining |-> duration, start_time |-> 0,
     paused_time |-> 0, is_paused |-> FALSE, is_completed |-> FALSE,
     is_stopped |-> FALSE]

\* create_timer(name, duration)
CreateTimer(timers, duration) ==
    LET timer_id == Cardinality(DOMAIN timers) + 1
    IN [timers |-> Put(timers, timer_id, Timer(duration)), ret |-> timer_id]

\* start_timer(timer_id); spawned: a thread was started on _run_timer
StartTimer(timers, timer_id, clock) ==
    IF timer_id \notin DOMAIN timers
    THEN [timers |-> timers, ret |-> FALSE, spawned |-> FALSE]
    ELSE IF timers[timer_id].is_completed \/ timers[timer_id].is_stopped
    THEN [timers |-> timers, ret |-> FALSE, spawned |-> FALSE]
    ELSE [timers |-> [timers EXCEPT ![timer_id].start_time = TimeTime(clock),
                                    ![timer_id].is_paused = FALSE],
          ret |-> TRUE, spawned |-> TRUE]

\* pause_timer(timer_id)
PauseTimer(timers, timer_id, clock) ==
    IF timer_id \notin DOMAIN timers
    THEN [timers |-> timers, ret |-> FALSE]
    ELSE IF timers[timer_id].is_paused \/ timers[timer_id].is_completed
    THEN [timers |-> timers, ret |-> FALSE]
    ELSE [timers |-> [timers EXCEPT ![timer_id].is_paused = TRUE,
                                    ![timer_id].paused_time = TimeTime(clock)],
          ret |-> TRUE]

\* resume_timer(timer_id)
ResumeTimer(timers, timer_id, clock) ==
    IF timer_id \notin DOMAIN timers
    THEN [timers |-> timers, ret |-> FALSE]
    ELSE IF ~timers[timer_id].is_paused
    THEN [timers |-> timers, ret |-> FALSE]
    ELSE LET pause_duration == TimeTime(clock) - timers[timer_id].paused_time
         IN [timers |-> [timers EXCEPT ![timer_id].start_time = @ + pause_duration,
                                       ![timer_id].is_paused = FALSE,
                                       ![timer_id].paused_time = 0],
             ret |-> TRUE]

\* stop_timer(timer_id)
StopTimer(timers, timer_id) ==
    IF timer_id \notin DOMAIN timers
    THEN [timers |-> timers, ret |-> FALSE]
    ELSE [timers |-> [timers EXCEPT ![timer_id].is_stopped = TRUE], ret |-> TRUE]

None == [none |-> TRUE]

\* get_timer_status(timer_id): remaining is cut to whole seconds by int();
\* the percentage divides by the duration
GetTimerStatus(timers, timer_id, clock) ==
    IF timer_id \notin DOMAIN timers THEN None
    ELSE LET timer == timers[timer_id]
             remaining ==
                 IF timer.is_completed THEN 0
                 ELSE IF timer.is_paused
                 THEN Max(0, timer.duration * TicksPerSecond
                             - (timer.paused_time - timer.start_time))
                 ELSE Max(0, timer.duration * TicksPerSecond
                             - (TimeTime(clock) - timer.start_time))
         IN IF timer.duration = 0
            THEN [error |-> "ZeroDivisionError"]
            ELSE [id |-> timer_id, duration |-> timer.duration,
                  remaining |-> remaining \div TicksPerSecond,
                  elapsed_ticks |-> timer.duration * TicksPerSecond - remaining,
                  is_paused |-> timer.is_paused,
                  is_completed |-> timer.is_completed,
                  is_stopped |-> timer.is_stopped]

\* list_active_timers()
ListActiveTimers(timers, clock) ==
    LET listed == {id \in DOMAIN timers : ~timers[id].is_stopped}
    IN IF \E id \in listed : timers[id].duration = 0
       THEN [error |-> "ZeroDivisionError"]
       ELSE [id \in listed |-> GetTimerStatus(timers, id, clock)]

InitManager ==
    /\ prog = "timer_v2"
    /\ now = 0
    /\ state = InitialState(TwoSteps)
    /\ runner = TRUE
    /\ hi = [pc |-> "running", kind |-> "interaction", msg |-> NoMsg]
    /\ last = [op |-> "TimerManager"]
    /\ started = NoTimer
    /\ notified = 0
    /\ advanced = 0
    /\ pc = [t \in Threads |-> "idle"]
    /\ loc = [t \in Threads |-> [none |-> TRUE]]
    /\ tool = NoTool
    /\ sessions = NoSessions
    /\ active_runners = {}
    /\ input = <<>>
    /\ phrase = <<>>
    /\ active_timers = NoSessions
    /\ run_timer = <<>>
    /\ completions = NoSessions
    /\ memory = NoSessions

DoCreateTimer ==
    /\ Cardinality(DOMAIN active_timers) < MaxTimers
    /\ \E duration \in 0 .. MaxDur :
          LET r == CreateTimer(active_timers, duration)
          IN /\ active_timers' = r.timers
             /\ completions' = Put(completions, r.ret, 0)
             /\ last' = [op |-> "create_timer", id |-> r.ret]
    /\ UNCHANGED <<prog, now, state, runner, hi, started, notified, advanced, pc, loc,
                   tool, sessions, active_runners, input, phrase, run_timer, memory>>

DoStartTimer ==
    /\ Len(run_timer) < MaxThreads
    /\ \E timer_id \in TimerIds :
          LET r == StartTimer(active_timers, timer_id, now)
          IN /\ active_timers' = r.timers
             /\ run_timer' = IF r.spawned
                             THEN Append(run_timer, [timer |-> timer_id, pc |-> "while"])
                             ELSE run_timer
             /\ last' = [op |-> "start_timer", id |-> timer_id, ret |-> r.ret]
    /\ UNCHANGED <<prog, now, state, runner, hi, started, notified, advanced, pc, loc,
                   tool, sessions, active_runners, input, phrase, completions, memory>>

DoPauseTimer ==
    /\ \E timer_id \in TimerIds :
          LET r == PauseTimer(active_timers, timer_id, now)
          IN /\ active_timers' = r.timers
             /\ last' = [op |-> "pause_timer", id |-> timer_id, ret |-> r.ret]
    /\ UNCHANGED <<prog, now, state, runner, hi, started, notified, advanced, pc, loc,
                   tool, sessions, active_runners, input, phrase, run_timer,
                   completions, memory>>

DoResumeTimer ==
    /\ \E timer_id \in TimerIds :
          LET r == ResumeTimer(active_timers, timer_id, now)
          IN /\ active_timers' = r.timers
             /\ last' = [op |-> "resume_timer", id |-> timer_id, ret |-> r.ret]
    /\ UNCHANGED <<prog, now, state, runner, hi, started, notified, advanced, pc, loc,
                   tool, sessions, active_runners, input, phrase, run_timer,
                   completions, memory>>

DoStopTimer ==
    /\ \E timer_id \in TimerIds :
          LET r == StopTimer(active_timers, timer_id)
          IN /\ active_timers' = r.timers
             /\ last' = [op |-> "stop_timer", id |-> timer_id, ret |-> r.ret]
    /\ UNCHANGED <<prog, now, state, runner, hi, started, notified, advanced, pc, loc,
                   tool, sessions, active_runners, input, phrase, run_timer,
                   completions, memory>>

DoGetTimerStatus ==
    /\ \E timer_id \in TimerIds :
          last' = [op |-> "get_timer_status", id |-> timer_id,
                   status |-> GetTimerStatus(active_timers, timer_id, now)]
    /\ UNCHANGED <<prog, now, state, runner, hi, started, notified, advanced, pc, loc,
                   tool, sessions, active_runners, input, phrase, active_timers,
                   run_timer, completions, memory>>

DoListActiveTimers ==
    /\ last' = [op |-> "list_active_timers",
                listed |-> ListActiveTimers(active_timers, now)]
    /\ UNCHANGED <<prog, now, state, runner, hi, started, notified, advanced, pc, loc,
                   tool, sessions, active_runners, input, phrase, active_timers,
                   run_timer, completions, memory>>

\* Mutant of _run_timer: the thread sleeps and loops where it is to mark the
\* timer completed.
RunStep_NeverCompletes(i, to) ==
    /\ run_timer' = [run_timer EXCEPT
                       ![i].pc = IF to = "is_completed" THEN "while" ELSE to]
    /\ last' = [op |-> "_run_timer", id |-> run_timer[i].timer]

\* A step of thread i of _run_timer, which goes to position to.
RunStep(i, to) ==
    /\ run_timer' = [run_timer EXCEPT ![i].pc = to]
    /\ last' = [op |-> "_run_timer", id |-> run_timer[i].timer]

\* _run_timer: while not timer.is_stopped
RunWhile ==
    /\ \E i \in DOMAIN run_timer :
          /\ run_timer[i].pc = "while"
          /\ RunStep(i, IF active_timers[run_timer[i].timer].is_stopped
                        THEN "done" ELSE "if_paused")
    /\ UNCHANGED <<prog, now, state, runner, hi, started, notified, advanced, pc, loc,
                   tool, sessions, active_runners, input, phrase, active_timers,
                   completions, memory>>

\* _run_timer: if timer.is_paused: time.sleep(0.1); continue
RunIfPaused ==
    /\ \E i \in DOMAIN run_timer :
          /\ run_timer[i].pc = "if_paused"
          /\ RunStep(i, IF active_timers[run_timer[i].timer].is_paused
                        THEN "while" ELSE "elapsed")
    /\ UNCHANGED <<prog, now, state, runner, hi, started, notified, advanced, pc, loc,
                   tool, sessions, active_runners, input, phrase, active_timers,
                   completions, memory>>

\* _run_timer: elapsed, remaining, if remaining <= 0, else time.sleep(0.1)
RunElapsed ==
    /\ \E i \in DOMAIN run_timer :
          /\ run_timer[i].pc = "elapsed"
          /\ LET timer == active_timers[run_timer[i].timer]
                 elapsed == TimeTime(now) - timer.start_time
                 remaining == timer.duration * TicksPerSecond - elapsed
             IN RunStep(i, IF remaining <= 0 THEN "is_completed" ELSE "while")
    /\ UNCHANGED <<prog, now, state, runner, hi, started, notified, advanced, pc, loc,
                   tool, sessions, active_runners, input, phrase, active_timers,
                   completions, memory>>

\* _run_timer: timer.is_completed = True
RunSetCompleted ==
    /\ \E i \in DOMAIN run_timer :
          /\ run_timer[i].pc = "is_completed"
          /\ active_timers' =
                [active_timers EXCEPT ![run_timer[i].timer].is_completed = TRUE]
          /\ RunStep(i, "_timer_completed")
    /\ UNCHANGED <<prog, now, state, runner, hi, started, notified, advanced, pc, loc,
                   tool, sessions, active_runners, input, phrase, completions, memory>>

\* _run_timer: self._timer_completed(timer_id); break
RunTimerCompleted ==
    /\ \E i \in DOMAIN run_timer :
          /\ run_timer[i].pc = "_timer_completed"
          /\ completions' = [completions EXCEPT ![run_timer[i].timer] = @ + 1]
          /\ RunStep(i, "done")
    /\ UNCHANGED <<prog, now, state, runner, hi, started, notified, advanced, pc, loc,
                   tool, sessions, active_runners, input, phrase, active_timers, memory>>

NextManager ==
    \/ Tick
    \/ DoCreateTimer
    \/ DoStartTimer
    \/ DoPauseTimer
    \/ DoResumeTimer
    \/ DoStopTimer
    \/ DoGetTimerStatus
    \/ DoListActiveTimers
    \/ RunWhile
    \/ RunIfPaused
    \/ RunElapsed
    \/ RunSetCompleted
    \/ RunTimerCompleted

SpecManager == InitManager /\ [][NextManager]_vars

\* A step of thread i of _run_timer.
RunThread(i) ==
    /\ i \in DOMAIN run_timer
    /\ RunWhile \/ RunIfPaused \/ RunElapsed \/ RunSetCompleted \/ RunTimerCompleted
    /\ run_timer'[i].pc # run_timer[i].pc

\* The manager with the clock advancing and every thread of _run_timer
\* scheduled again and again.
FairSpecManager ==
    /\ InitManager
    /\ [][NextManager]_vars
    /\ WF_vars(Tick)
    /\ \A i \in 1 .. MaxThreads : WF_vars(RunThread(i))

\* ------------------------------------------- interactions running together
\* The requests of one event loop (asyncio): a handler runs alone until it
\* awaits, and another handler may run while it is suspended.  Two
\* interactions (Threads) are in flight at most; each names any session id.
\* A start is served without another request running in between.

\* start_cooking_session(recipe) when the greeting run raises: create_session
\* and active_runners[session_id] = runner have run, and nothing undoes them.
\* main.py catches the exception and raises HTTPException(500); the backend
\* lets it propagate.
StartCookingSessionRaises(ss, rs, steps) ==
    LET session_id == Cardinality(DOMAIN ss) + 1
        e == [error |-> "Exception", status_code |-> 0, message |-> "run_async"]
    IN [sessions |-> [i \in DOMAIN ss \cup {session_id} |->
                         IF i = session_id THEN InitialState(steps) ELSE ss[i]],
        runners |-> rs \cup {session_id},
        ret |-> IF prog = "main" THEN ExceptException(e) ELSE e]

\* start_cooking_session: the greeting run either answers or raises.
LoopStartCookingSession ==
    /\ Cardinality(DOMAIN sessions) < MaxSessions
    /\ \E raises \in BOOLEAN :
          LET r == IF raises
                   THEN StartCookingSessionRaises(sessions, active_runners, TwoSteps)
                   ELSE StartCookingSession(sessions, active_runners, TwoSteps, "none", now)
          IN /\ sessions' = r.sessions
             /\ active_runners' = r.runners
             /\ last' = [op |-> "start_cooking_session",
                         id |-> Cardinality(DOMAIN sessions) + 1, ret |-> r.ret]
    /\ UNCHANGED <<prog, now, state, runner, hi, started, notified, advanced, pc, loc,
                   tool,
                   input, phrase,
                   active_timers, run_timer, completions, memory>>

\* cooking_interaction / handle_interaction, up to the agent run:
\* runner = active_runners.get(session_id); if not runner: raise
LoopLookupRunner(t) ==
    /\ pc[t] = "idle"
    /\ \E session_id \in SessionIds :
          IF session_id \notin active_runners
          THEN /\ last' = [op |-> "handle_interaction", id |-> session_id,
                           ret |-> RunnerNotFound]
               /\ UNCHANGED <<pc, loc>>
          ELSE /\ pc' = [pc EXCEPT ![t] = "run_async"]
               /\ loc' = [loc EXCEPT ![t] = [session_id |-> session_id]]
               /\ last' = [op |-> "active_runners.get", id |-> session_id]
    /\ UNCHANGED <<prog, now, state, runner, hi, started, notified, advanced,
                   tool, sessions, active_runners,
                   input, phrase,
                   active_timers, run_timer, completions, memory>>

\* The agent run of the interaction (the backend checks the timer first):
\* the runner held in the local variable serves it, registered or not.
LoopRunAsync(t) ==
    /\ pc[t] = "run_async"
    /\ LET session_id == loc[t].session_id
           st0 == IF prog = "backend"
                  THEN CheckTimerCompletion(sessions[session_id]).state
                  ELSE sessions[session_id]
       IN \E call \in AgentCalls :
             /\ MayCall(sessions[session_id], call)
             /\ sessions' = [sessions EXCEPT ![session_id] = RunAgent(st0, call, now)]
             /\ last' = [op |-> "run_async", id |-> session_id, call |-> call]
    /\ pc' = [pc EXCEPT ![t] = "get_session"]
    /\ UNCHANGED <<prog, now, state, runner, hi, started, notified, advanced, loc,
                   tool, active_runners,
                   input, phrase,
                   active_timers, run_timer, completions, memory>>

\* After the run: get_session returns, recipe_completed is read, and
\*     if recipe_completed and session_id in active_runners:
\*         await add_session_to_memory(session)
\*         del active_runners[session_id]
\* The call of add_session_to_memory is made at once.  The await either
\* returns without suspending the handler, and the del follows in the same
\* step, or suspends it: the del is then a step of its own.
LoopGetSession(t) ==
    /\ pc[t] = "get_session"
    /\ LET session_id == loc[t].session_id
           r == IF prog = "main" THEN GetTimerInfo(sessions[session_id], now)
                ELSE [state |-> sessions[session_id], info |-> InactiveInfo]
           recipe_completed == Get(r.state, "recipe_completed", FALSE)
           response == [session_id |-> session_id, recipe_completed |-> recipe_completed]
       IN /\ sessions' = [sessions EXCEPT ![session_id] = r.state]
          /\ IF recipe_completed /\ session_id \in active_runners
             THEN /\ memory' = [i \in DOMAIN memory \cup {session_id} |->
                                   IF i = session_id THEN Get(memory, i, 0) + 1 ELSE memory[i]]
                  /\ \E suspends \in BOOLEAN :
                        IF suspends
                        THEN /\ pc' = [pc EXCEPT ![t] = "del"]
                             /\ loc' = [loc EXCEPT ![t] = response]
                             /\ last' = [op |-> "add_session_to_memory", id |-> session_id]
                             /\ UNCHANGED active_runners
                        ELSE /\ active_runners' = active_runners \ {session_id}
                             /\ pc' = [pc EXCEPT ![t] = "idle"]
                             /\ loc' = [loc EXCEPT ![t] = [none |-> TRUE]]
                             /\ last' = [op |-> "handle_interaction", id |-> session_id,
                                         ret |-> response]
             ELSE /\ pc' = [pc EXCEPT ![t] = "idle"]
                  /\ loc' = [loc EXCEPT ![t] = [none |-> TRUE]]
                  /\ last' = [op |-> "handle_interaction", id |-> session_id,
                              ret |-> response]
                  /\ UNCHANGED <<active_runners, memory>>
    /\ UNCHANGED <<prog, now, state, runner, hi, started, notified, advanced,
                   tool,
                   input, phrase,
                   active_timers, run_timer, completions>>

\* del active_runners[session_id], resumed after the await: KeyError when the
\* id is registered no more (main.py answers it with HTTPException(500)).
LoopDelRunner(t) ==
    /\ pc[t] = "del"
    /\ LET session_id == loc[t].session_id
           e == [error |-> "KeyError", status_code |-> 0, message |-> "KeyError"]
       IN IF session_id \in active_runners
          THEN /\ active_runners' = active_runners \ {session_id}
               /\ last' = [op |-> "handle_interaction", id |-> session_id, ret |-> loc[t]]
          ELSE /\ UNCHANGED active_runners
               /\ last' = [op |-> "handle_interaction", id |-> session_id,
                           ret |-> IF prog = "main" THEN ExceptException(e) ELSE e]
    /\ pc' = [pc EXCEPT ![t] = "idle"]
    /\ loc' = [loc EXCEPT ![t] = [none |-> TRUE]]
    /\ UNCHANGED <<prog, now, state, runner, hi, started, notified, advanced,
                   tool, sessions,
                   input, phrase,
                   active_timers, run_timer, completions, memory>>

NextLoop ==
    \/ LoopStartCookingSession
    \/ \E t \in Threads :
          \/ LoopLookupRunner(t)
          \/ LoopRunAsync(t)
          \/ LoopGetSession(t)
          \/ LoopDelRunner(t)

SpecLoop == InitSessions /\ [][NextLoop]_vars

\* ------------------------------------------------------------- properties
\* The last operation was a read of the session that reports timer_info.
IsRead == last.op \in {"get_status", "interaction", "start_cooking_session"}

\* The last operation was a read that went through main.py's get_timer_info.
IsTimerRead == IsRead /\ prog = "main"

Reading == hi.pc = "running" /\ hi.kind = "interaction"

\* A timer of positive duration was started and its duration has elapsed.
Elapsed ==
    /\ started # NoTimer
    /\ started.dur > 0
    /\ Expired(state, now)

\* C2: if a started timer's duration elapses and the session keeps being
\* read by interactions, a completion message is eventually delivered to
\* one of those reads (unless the timer is started again first).
C2_CompletionEventuallyDelivered ==
    ([]<>Reading) => [](Elapsed => <>(notified > 0 \/ ~Elapsed))

\* C3: a status read performed when now >= startInstant + durationSeconds
\* leaves the timer with active = false and completed = true.  Stated for
\* timers of positive duration.
C3_ExpiredReadCompletesTimer ==
    (IsTimerRead /\ last.expired /\ state["timer_duration"] > 0) =>
        /\ ~Get(state, "timer_active", FALSE)
        /\ Get(state, "timer_completed", FALSE)

\* C4: whenever the session is not complete, the step number reported by a
\* status read equals stepIndex + 1: it never reports the old step after the
\* cursor has been incremented.  Stated for sessions whose current step has
\* been looked up at least once.
C4_StatusStepMatchesCursor ==
    (/\ last.op = "get_status"
     /\ ~last.ret.recipe_completed
     /\ "current_step_number" \in DOMAIN state) =>
        last.ret.current_step = Get(state, "step_index", 0) + 1

\* No call is in progress on any thread.
AllIdle == \A t \in Threads : pc[t] = "idle"

\* C5: when the advance calls issued concurrently have all returned, the
\* step cursor is exactly as many steps higher as calls were issued.
C5_NoLostAdvance ==
    AllIdle => Get(state, "step_index", 0) = advanced

\* C6: a lazy-expiry read that races with a timer restart never deactivates
\* the newly started timer: once the restart and the read have both
\* returned, a timer that the read's flip left inactive is one whose
\* duration has elapsed (the flip applies to the timer that was examined).
C6_FlipOnlyExaminedTimer ==
    (last.op = "expire_flip" /\ AllIdle) =>
        /\ Expired(state, now)
        /\ state["timer_start_time"] = last.start_time
        /\ state["timer_duration"] = last.duration

\* C7: after a timer start is accepted, the stored duration and start
\* instant are those of that start, and every read that reports an active
\* timer reports them: never those of an earlier timer.
C7_RestartOverwrites ==
    started # NoTimer =>
        /\ state["timer_duration"] = started.dur
        /\ state["timer_start_time"] = started.at
        /\ (IsRead /\ last.ret.timer_info.active) =>
               /\ last.ret.timer_info.duration_seconds = started.dur
               /\ last.ret.timer_info.start_time = started.at

\* C7 witness: a timer was started while another one, of a different
\* duration, was still running, and a later read reports the new timer.
C7_Witness ==
    /\ started # NoTimer
    /\ started.overwrote
    /\ IsRead
    /\ last.ret.timer_info.active
    /\ last.ret.timer_info.duration_seconds = started.dur
    /\ now > started.at

\* C8: starting a timer with a negative duration returns an error and
\* leaves every timer field of the session unchanged.
C8_NegativeStartRejected ==
    [][(last'.op = "web_timer_tool" /\ last'.arg < 0) =>
           /\ last'.status = "error"
           /\ TimerFields(state') = TimerFields(state)]_vars

\* C8 witness: a negative start was refused while a timer was running.
C8_Witness ==
    /\ last.op = "web_timer_tool"
    /\ last.arg < 0
    /\ last.status = "error"
    /\ Running(state, now)
    /\ state["timer_duration"] > 0

\* C9: a timer stored in a session has durationSeconds > 0.
C9_StoredDurationPositive ==
    "timer_duration" \in DOMAIN state => state["timer_duration"] > 0

\* C10, as claimed: a read that reports the timer active reports
\* remaining = max(0, durationSeconds - (now - startInstant)) exactly.
C10_RemainingExact ==
    (IsTimerRead /\ last.ret.timer_info.active) =>
        last.ret.timer_info.remaining_seconds * TicksPerSecond
            = Max(0, state["timer_duration"] * TicksPerSecond
                         - (now - state["timer_start_time"]))

\* C10, amended: a read that reports the timer active reports the whole
\* seconds of max(0, durationSeconds - (now - startInstant)), which is at
\* least 0 and at most durationSeconds.
C10_RemainingTruncated ==
    (IsTimerRead /\ last.ret.timer_info.active) =>
        LET exact == Max(0, state["timer_duration"] * TicksPerSecond
                                - (now - state["timer_start_time"]))
            reported == last.ret.timer_info.remaining_seconds
        IN /\ reported * TicksPerSecond <= exact
           /\ exact < (reported + 1) * TicksPerSecond
           /\ 0 <= reported
           /\ reported <= state["timer_duration"]

\* C10 witness: an active timer read a fraction of a second after a whole
\* number of seconds had elapsed.
C10_Witness ==
    /\ IsTimerRead
    /\ last.ret.timer_info.active
    /\ now > state["timer_start_time"]
    /\ last.ret.timer_info.remaining_seconds * TicksPerSecond
           < state["timer_duration"] * TicksPerSecond - (now - state["timer_start_time"])

\* ------------------------------------------------------------ the cursor
\* C11: across the operations on a session (advance, current-step lookup,
\* timer start, interaction, status, exit) the step cursor step_index never
\* decreases.
C11_CursorNeverDecreases ==
    [][Get(state', "step_index", 0) >= Get(state, "step_index", 0)]_vars

\* An advance has moved the cursor of a session with steps.
C11_Witness ==
    /\ last.op = "advance_step"
    /\ Get(state, "step_index", 0) >= 1
    /\ DOMAIN Get(state, "recipe_steps", NoSteps) # {}

\* C12: once recipe_completed is true in a session, no later operation on
\* that session makes it false.
C12_CompletedIsOneWay ==
    [][Get(state, "recipe_completed", FALSE) => Get(state', "recipe_completed", FALSE)]_vars

\* A lookup that still returns a step, in a session exit_loop has completed.
C12_Witness ==
    /\ last.op = "get_current_step"
    /\ ~last.ret.is_complete
    /\ Get(state, "recipe_completed", FALSE)

\* C13: for a recipe of K >= 1 steps, a status query after K-1 advances
\* yields step number K and not complete, and a status query after K
\* advances yields complete.  (Stated for sessions in which a lookup has
\* stored a step number.)
C13_StatusAfterAdvances ==
    (/\ last.op = "get_status"
     /\ NumSteps >= 1
     /\ "current_step_number" \in DOMAIN state)
    => /\ advanced = NumSteps - 1 =>
             /\ last.ret.current_step = NumSteps
             /\ ~last.ret.recipe_completed
       /\ advanced = NumSteps => last.ret.recipe_completed

\* C14: the step a lookup returns at cursor position i is the one with the
\* (i+1)-th smallest key in numeric order.
C14_LookupInNumericOrder ==
    (/\ last.op = "get_current_step"
     /\ "error" \notin DOMAIN last.ret
     /\ ~last.ret.is_complete)
    => LET i == Get(state, "step_index", 0)
       IN last.ret.step = RecipeSteps[KeyOfInt(RecipeSteps, StepKeys(RecipeSteps)[i + 1])]

\* C15: whenever a current-step lookup returns is_complete = true, the
\* session's recipe_completed flag is true immediately after the lookup.
C15_CompleteLookupSetsFlag ==
    (last.op = "get_current_step" /\ last.ret.is_complete)
    => Get(state, "recipe_completed", FALSE)

\* C16: advancing a session that is already complete does not move the step
\* position past the number of steps (stated for recipes with steps).
C16_CursorStopsAtEnd ==
    NumSteps >= 1 => Get(state, "step_index", 0) <= NumSteps

\* C17: for a session whose step list is empty, a current-step lookup raises
\* no error and returns is_complete = true.
C17_EmptyRecipeLookupCompletes ==
    (last.op = "get_current_step" /\ NumSteps = 0)
    => /\ "error" \notin DOMAIN last.ret
       /\ last.ret.is_complete

\* The first lookup of a session without steps has answered.
C17_Witness ==
    /\ last.op = "get_current_step"
    /\ NumSteps = 0
    /\ advanced = 0
    /\ "error" \notin DOMAIN last.ret
    /\ last.ret.is_complete

\* C18: starting a cooking session from a recipe with zero steps is rejected
\* with an error, and the call leaves no session and no runner behind.
C18_EmptyRecipeStartRejected ==
    (last.op = "start_cooking_session" /\ last.num_steps = 0)
    => /\ "error" \in DOMAIN last.ret
       /\ last.id \notin DOMAIN sessions
       /\ last.id \notin active_runners

\* C19: a status query never changes the session's step position or
\* completed flag; of the session state it may change only the timer's
\* active / completed fields (lazy expiry).
C19_StatusKeepsStepState ==
    [][last'.op = "get_status" =>
          /\ DOMAIN state' = DOMAIN state
          /\ \A k \in DOMAIN state \ {"timer_active", "timer_completed"} :
                state'[k] = state[k]]_vars

\* A status query has expired the timer of a session whose cursor has moved.
C19_Witness ==
    /\ last.op = "get_status"
    /\ prog = "main"
    /\ last.expired
    /\ started # NoTimer
    /\ started.dur > 0
    /\ ~Get(state, "timer_active", FALSE)
    /\ Get(state, "step_index", 0) >= 1

\* C20: an interaction or a status operation given a session id that was
\* never created fails (in the backend with the ValueError "... not found"),
\* creates no session and changes no stored session and no runner.
C20_UnknownSessionNotFound ==
    [][(/\ last'.op \in {"handle_interaction", "get_session_status"}
        /\ last'.id \notin DOMAIN sessions)
       => /\ sessions' = sessions
          /\ active_runners' = active_runners
          /\ "error" \in DOMAIN last'.ret
          /\ prog = "backend" =>
                /\ last'.ret.error = "ValueError"
                /\ last'.ret.message \in {"Cooking session not found", "Session not found"}]_vars

\* A status operation on an unknown id has failed next to a stored session.
C20_Witness ==
    /\ last.op = "get_session_status"
    /\ last.id \notin DOMAIN sessions
    /\ DOMAIN sessions # {}
    /\ active_runners # {}
    /\ prog = "backend"
    /\ "error" \in DOMAIN last.ret

\* ------------------------------------------------------ the session table
\* C21: in main.py an interaction or status request with an unknown session
\* id is answered with status 404, not with the 500 of an internal failure.
C21_UnknownSessionIs404 ==
    (/\ prog = "main"
     /\ last.op \in {"handle_interaction", "get_session_status"}
     /\ last.id \notin DOMAIN sessions)
    => last.ret.status_code = 404

\* C22: after end_session(id) has returned for a session, a status query on
\* that id reports not-found.
C22_EndedSessionNotFound ==
    [][(/\ last.op = "end_session"
        /\ last.id \in DOMAIN sessions
        /\ last'.op = "get_session_status"
        /\ last'.id = last.id)
       => "error" \in DOMAIN last'.ret]_vars

\* C23: end_session succeeds on every id, registered or not, and leaves the
\* id unregistered; ending an id twice leaves the runners that ending it
\* once leaves.
C23_EndSessionIdempotent ==
    /\ last.op = "end_session" =>
          /\ "error" \notin DOMAIN last.ret
          /\ last.id \notin active_runners
    /\ \A id \in SessionIds :
          LET once == EndSession(active_runners, id)
              twice == EndSession(once.runners, id)
          IN /\ "error" \notin DOMAIN twice.ret
             /\ twice.runners = once.runners

\* end_session has succeeded on a stored session that is not complete and
\* whose runner an earlier end_session had removed.
C23_Witness ==
    /\ last.op = "end_session"
    /\ ~last.was_registered
    /\ last.id \in DOMAIN sessions
    /\ ~Get(sessions[last.id], "recipe_completed", FALSE)
    /\ "error" \notin DOMAIN last.ret

\* C24: a request on one session id leaves the state dict (step cursor,
\* completed flag, timer) and the runner of every other session unchanged.
C24_SessionsIndependent ==
    []["id" \in DOMAIN last' =>
          \A i \in DOMAIN sessions :
             i # last'.id =>
                /\ i \in DOMAIN sessions'
                /\ sessions'[i] = sessions[i]
                /\ (i \in active_runners') = (i \in active_runners)]_vars

\* An advance has acted on one session while another has a running timer.
C24_Witness ==
    /\ last.op = "handle_interaction"
    /\ last.call = "advance_step"
    /\ Get(sessions[last.id], "step_index", 0) = 1
    /\ \E i \in DOMAIN sessions :
          /\ i # last.id
          /\ Get(sessions[i], "timer_active", FALSE)
          /\ Get(sessions[i], "step_index", 0) = 0

Where(Q(_)) == {i \in DOMAIN phrase : Q(phrase[i])}

\* Of the positions P of the phrase, the one of the best rank, the leftmost
\* among equals.
BestOf(P, Rank(_)) ==
    CHOOSE i \in P : \A o \in P :
        \/ Rank(phrase[i]) < Rank(phrase[o])
        \/ Rank(phrase[i]) = Rank(phrase[o]) /\ i <= o

IsPrefix(a, b) == Len(a) <= Len(b) /\ SubSeq(b, 1, Len(a)) = a

Hyphen == <<"-">>

\* A duration whose unit word is written out: second, minute, hour.
Recognized(item) == item.kind = "duration" /\ ~item.unit.abbreviated

\* seconds before minutes before hours, hyphenated before spaced
Priority(item) ==
    (IF item.unit.seconds = 1 THEN 0 ELSE IF item.unit.seconds = 60 THEN 2 ELSE 4)
    + (IF item.sep = Hyphen THEN 1 ELSE 2)

\* C26: parse_timer_duration (backend tool, main.py) answers with the
\* recognised duration of the highest priority in the order seconds, minutes,
\* hours, hyphenated before spaced, wherever it stands in the text (the
\* leftmost one among equals): its value is returned and original_match is
\* taken from it; with no recognised duration the answer is not_found.
C26_HighestPriorityPatternWins ==
    last.op = "parse_timer_duration" =>
        IF Where(Recognized) = {}
        THEN last.ret.status = "not_found"
        ELSE LET best == phrase[BestOf(Where(Recognized), Priority)]
             IN /\ last.ret.status = "success"
                /\ last.ret.duration_seconds = best.n * best.unit.seconds
                /\ IsPrefix(last.ret.original_match, Render(best))

\* A text with a minutes expression first and a seconds expression after it
\* was parsed, and the seconds value came back.
C26_Witness ==
    /\ last.op = "parse_timer_duration"
    /\ Len(phrase) = 2
    /\ Recognized(phrase[1]) /\ phrase[1].unit.seconds = 60 /\ phrase[1].n = 2
    /\ Recognized(phrase[2]) /\ phrase[2].unit.seconds = 1
    /\ phrase[2].n = MaxNumber
    /\ last.ret.duration_seconds = MaxNumber

\* C27: for a text with exactly one recognised duration "N <unit>",
\* parse_timer_duration (backend tool) returns N times the seconds of the
\* unit, and duration_text names N and that unit.
C27_SingleExpressionValue ==
    (last.op = "parse_timer_duration" /\ Cardinality(Where(Recognized)) = 1) =>
        LET item == phrase[CHOOSE i \in Where(Recognized) : TRUE]
        IN /\ last.ret.status = "success"
           /\ last.ret.duration_seconds = item.n * item.unit.seconds
           /\ last.ret.duration_text =
                 DurationText(item.n, UnitName(item.unit.seconds, item.n))

\* A bare number followed by "2 hours" (or "2-hours", "2hours") was parsed
\* to 7200 seconds.
C27_Witness ==
    /\ last.op = "parse_timer_duration"
    /\ Len(phrase) = 2
    /\ phrase[1].kind = "number"
    /\ Recognized(phrase[2]) /\ phrase[2].unit.seconds = 3600 /\ phrase[2].n = 2
    /\ last.ret.duration_seconds = 7200
    /\ last.ret.duration_text = <<"2", " ", "h", "o", "u", "r", "s">>

\* A duration the patterns of the command-line parser can match: the number,
\* optional whitespace, the unit word.
CliRecognized(item) == item.kind = "duration" /\ item.sep # Hyphen

HasDigits(item) == item.kind \in {"duration", "number"}

\* C28: for a text whose only number is in its one duration "N <unit>", the
\* command-line parse_timer_duration returns N times the seconds of the
\* unit.
C28_CliCountsOnce ==
    (/\ last.op = "cli_parse_timer_duration"
     /\ Cardinality(Where(HasDigits)) = 1
     /\ Cardinality(Where(CliRecognized)) = 1) =>
        LET item == phrase[CHOOSE i \in Where(CliRecognized) : TRUE]
        IN /\ last.ret.status = "success"
           /\ last.ret.duration = item.n * item.unit.seconds

\* A duration one of set_custom_timer's unit patterns matches: the number,
\* optional whitespace, then sec, min or hour.
LooseUnit(item) ==
    item.kind = "duration" /\ item.sep # Hyphen /\ item.unit.word # HrWord

\* sec before min before hour
LoosePriority(item) ==
    IF item.unit.seconds = 1 THEN 1 ELSE IF item.unit.seconds = 60 THEN 2 ELSE 3

\* The leftmost of the positions P.
Leftmost(P) == CHOOSE i \in P : \A o \in P : i <= o

\* The seconds set_custom_timer is to store for the phrase.
CustomSeconds ==
    IF Where(LooseUnit) # {}
    THEN LET best == phrase[BestOf(Where(LooseUnit), LoosePriority)]
         IN best.n * best.unit.seconds
    ELSE phrase[Leftmost(Where(HasDigits))].n

C30_StoppedTimerRemoved ==
    (last.op = "stop_timer" /\ last.ret) =>
        /\ last.id \notin DOMAIN active_timers
        /\ GetTimerStatus(active_timers, last.id, now) = None
        /\ ~StopTimer(active_timers, last.id).ret

\* C31: once every timer of the manager has completed, list_active_timers
\* returns an empty mapping.
C31_CompletedTimersNotListed ==
    (/\ last.op = "list_active_timers"
     /\ DOMAIN active_timers # {}
     /\ \A id \in DOMAIN active_timers :
           /\ active_timers[id].is_completed
           /\ active_timers[id].duration > 0) =>
        DOMAIN last.listed = {}

\* C32: _timer_completed runs at most once for each timer.
C32_CompletionHandlerRunsOnce ==
    \A id \in DOMAIN completions : completions[id] <= 1

\* C33: a timer that stop_timer has stopped (is_stopped is set by a stop_timer
\* that returns True, and by nothing else, and is never cleared) is not marked
\* completed afterwards, and its completion handler does not run.
C33_StoppedTimerNeverCompletes ==
    [][\A id \in DOMAIN active_timers :
          (active_timers[id].is_stopped /\ active_timers[id].duration > 0) =>
              /\ active_timers'[id].is_completed = active_timers[id].is_completed
              /\ completions'[id] = completions[id]]_vars

\* C34: while a timer stays paused (it was paused with time left) it is not
\* marked completed and the remaining time get_timer_status reports for it
\* does not change.
C34_PausedTimerIsFrozen ==
    [][\A id \in DOMAIN active_timers :
          (/\ active_timers[id].is_paused
           /\ active_timers'[id].is_paused
           /\ active_timers[id].duration * TicksPerSecond
                 > active_timers[id].paused_time - active_timers[id].start_time) =>
              /\ active_timers'[id].is_completed = active_timers[id].is_completed
              /\ GetTimerStatus(active_timers', id, now').remaining
                    = GetTimerStatus(active_timers, id, now).remaining]_vars

\* C35: get_timer_status reports 0 <= remaining <= duration, and
\* remaining = duration for a timer that was created and not yet started.
C35_RemainingWithinDuration ==
    (/\ last.op = "get_timer_status"
     /\ last.id \in DOMAIN active_timers
     /\ active_timers[last.id].duration > 0) =>
        /\ last.status.remaining >= 0
        /\ last.status.remaining <= last.status.duration
        /\ active_timers[last.id].start_time = 0 =>
              last.status.remaining = last.status.duration

\* Timer id has been started (a thread runs it), is neither paused nor
\* stopped, and its duration ends within the time the clock covers.
Counting(id) ==
    /\ id \in DOMAIN active_timers
    /\ \E i \in DOMAIN run_timer : run_timer[i].timer = id
    /\ ~active_timers[id].is_paused
    /\ ~active_timers[id].is_stopped
    /\ active_timers[id].start_time + active_timers[id].duration * TicksPerSecond
          <= TimeTime(MaxTime)

\* C36: a started timer is eventually marked completed and its completion
\* handler runs, unless it is paused or stopped first (or started again so
\* late that its duration ends after the time the clock covers).
C36_StartedTimerCompletes ==
    \A id \in TimerIds :
        Counting(id) ~>
            \/ ~Counting(id)
            \/ active_timers[id].is_completed /\ completions[id] >= 1

\* A timer of MaxDur seconds was started, never paused or stopped, marked
\* completed, and its completion handler has run once.
C36_Witness ==
    /\ 1 \in DOMAIN active_timers
    /\ active_timers[1].duration = MaxDur
    /\ active_timers[1].is_completed
    /\ active_timers[1].paused_time = 0
    /\ ~active_timers[1].is_paused
    /\ ~active_timers[1].is_stopped
    /\ completions[1] = 1


\* C39: after any get_timer_info read, the timer_active flag stored in the
\* session agrees with the active value of the snapshot the read returned.
C39_TimerActiveAgreesWithSnapshot ==
    IsTimerRead =>
        Get(state, "timer_active", FALSE) = last.ret.timer_info.active


\* C37: when several interactions on the same session run together and the
\* recipe becomes completed, the session is added to memory once, and no
\* interaction that found the runner fails at the removal of the runner.
C37_ArchivedOnceAndRemovedOnce ==
    /\ \A session_id \in DOMAIN memory : memory[session_id] <= 1
    /\ (last.op = "handle_interaction" /\ "error" \in DOMAIN last.ret) =>
           last.ret.message # "KeyError"

\* C38: a start_cooking_session that fails after it has begun leaves no
\* session and no runner registered under the new session id.
C38_FailedStartLeavesNothing ==
    (last.op = "start_cooking_session" /\ "error" \in DOMAIN last.ret) =>
        /\ last.id \notin DOMAIN sessions
        /\ last.id \notin active_runners

====
